---- MODULE Spec2Model ----
(***************************************************************************)
(* Model of the animated tiling layout of WF-hypergrid                     *)
(* (src/WF-hypergrid/src/animated-tile.cpp): the animated scalar           *)
(* (AnimatedVar), the animated rectangle (AnimatedGeometry), the binary    *)
(* tile tree (TileNode) and the per-workspace tree manager (TileTree).     *)
(*                                                                         *)
(* Nodes live in a heap indexed by node ids.  A child slot is a            *)
(* std::shared_ptr (an owning id), m_parent is a std::weak_ptr (a          *)
(* non-owning id that reads as nullptr once its target is destroyed).      *)
(* A node is destroyed when its last owner lets go of it, which is what    *)
(* Release computes when a handler returns and its locals are dropped.     *)
(*                                                                         *)
(* float values that the program only ever holds as small dyadic numbers   *)
(* are kept exactly: the split ratio and the width multiplier as a         *)
(* numerator and a denominator, scale and alpha in thousandths.            *)
(***************************************************************************)
EXTENDS Integers, Sequences, FiniteSets, TLC

\* ------------------------------------------------------------------ bounds
\* Number of distinct window handles the environment maps.
MaxViews == 3
\* Last instant (in ms) the clock of the model reaches.
MaxTime == 2

Views == 1..MaxViews
\* One more window handle, which the environment never maps: the properties
\* hand it to addView in a state whose tree already holds MaxViews windows.
ProbeView == MaxViews + 1
\* A tree of k leaves has 2k-1 nodes: k leaves and k-1 splits.  The heap has
\* room for the tree of all MaxViews + 1 handles.
LeafIds == 1..(MaxViews + 1)
SplitIds == (MaxViews + 2)..(2 * MaxViews + 1)
NodeIds == LeafIds \cup SplitIds

\* ------------------------------------------------------- program constants
\* nullptr for a wayfire_toplevel_view
NoView == 0
\* nullptr for a TileNodePtr / an empty or expired TileNodeWeak
Null == 0
\* SplitDir
HORIZONTAL == "HORIZONTAL"
VERTICAL == "VERTICAL"
\* 1.0f in thousandths (scale and alpha are kept in thousandths)
FloatOne == 1000
\* the 0.8f that addView hands to startPopin and removeView to startPopout
PopScale == 800
\* TileNode::m_splitRatio = 0.5f, never changed by the program
SplitRatioNum == 1
SplitRatioDen == 2
\* TileTree::m_gapIn, m_gapOut
DefaultGapIn == 5
DefaultGapOut == 10
\* AnimatedVar::m_durationMs and TileTree::m_durationMs = 300.0f
DefaultDurationMs == 300
\* the animation duration setConfig is handed where animations run, in ms (a
\* power of two keeps elapsed / duration exact in float)
DurationMs == 2
\* AnimatedGeometry's initial width and height
InitialExtent == 100

\* ------------------------------------------------------------- arithmetic
Abs(a) == IF a < 0 THEN -a ELSE a

\* C++ integer division and static_cast<int>(float): truncation toward zero
TruncDiv(a, b) ==
    LET q == Abs(a) \div Abs(b)
    IN IF (a < 0) = (b < 0) THEN q ELSE -q

Rect(x, y, w, h) == [x |-> x, y |-> y, width |-> w, height |-> h]

\* ------------------------------------------------------------ AnimatedVar
\* m_curve stays nullptr throughout: the easing is linear
AnimatedVar(initial) ==
    [m_value |-> initial, m_start |-> initial, m_goal |-> initial,
     m_durationMs |-> DefaultDurationMs, m_animating |-> FALSE, m_startTime |-> 0]

AVsetConfig(av, durationMs) == [av EXCEPT !.m_durationMs = durationMs]

\* A set that re-targets without moving the start point to the current value
AVset_KeepStart(av, goal, animate, t) ==
    IF ~animate \/ av.m_durationMs <= 0
    THEN [av EXCEPT !.m_value = goal, !.m_goal = goal, !.m_start = goal,
                    !.m_animating = FALSE]
    ELSE [av EXCEPT !.m_goal = goal, !.m_startTime = t, !.m_animating = TRUE]

\* A set that returns at once when the goal it is given is the one it has
AVset_SkipSameGoal(av, goal, animate, t) ==
    IF goal = av.m_goal THEN av
    ELSE IF ~animate \/ av.m_durationMs <= 0
    THEN [av EXCEPT !.m_value = goal, !.m_goal = goal, !.m_start = goal,
                    !.m_animating = FALSE]
    ELSE [av EXCEPT !.m_start = av.m_value, !.m_goal = goal,
                    !.m_startTime = t, !.m_animating = TRUE]

\* AnimatedVar::set; t is what the clock reads in the call
AVset(av, goal, animate, t) ==
    IF ~animate \/ av.m_durationMs <= 0
    THEN [av EXCEPT !.m_value = goal, !.m_goal = goal, !.m_start = goal,
                    !.m_animating = FALSE]
    ELSE [av EXCEPT !.m_start = av.m_value, !.m_goal = goal,
                    !.m_startTime = t, !.m_animating = TRUE]

AVwarp(av, value) ==
    [av EXCEPT !.m_value = value, !.m_goal = value, !.m_start = value,
               !.m_animating = FALSE]

\* std::clamp(elapsed / m_durationMs, 0.0f, 1.0f) as the elapsed ms clamped to
\* [0, duration]: progress = Elapsed / m_durationMs (a scalar that animates
\* has m_durationMs > 0)
Elapsed(av, t) ==
    LET e == t - av.m_startTime
    IN IF e <= 0 THEN 0 ELSE IF e >= av.m_durationMs THEN av.m_durationMs ELSE e

\* ------------------------------------------------- single-precision floats
\* A float is held as [n, k], the number n / 2^k with |n| <= 2^24 (24
\* significant bits; the exponent range plays no part for the magnitudes of
\* the program).  Every operation computes the exact result and rounds it
\* to nearest, ties to even, as the FPU does.
MantissaLimit == 2^24

\* Bits to drop from the magnitude m for it to fit the significand
RECURSIVE ShiftOf(_)
ShiftOf(m) == IF m < MantissaLimit THEN 0 ELSE 1 + ShiftOf(m \div 2)

FloorDiv(x, m) == IF x >= 0 THEN x \div m ELSE -((m - 1 - x) \div m)

\* The float nearest to the number of sign sgn(n) and magnitude
\* (|n| + theta) / 2^k, with theta = 0, or 0 < theta < 1 when sticky
F32Round(n, k, sticky) ==
    LET m == Abs(n)
        j == ShiftOf(m)
    IN IF j = 0 THEN [n |-> n, k |-> k]
       ELSE LET q == m \div (2^j)
                r == m % (2^j)
                half == 2^(j - 1)
                up == r > half \/ (r = half /\ (sticky \/ q % 2 = 1))
                q2 == IF up THEN q + 1 ELSE q
            IN [n |-> IF n < 0 THEN -q2 ELSE q2, k |-> k - j]

\* Long division: the leading bits q of e / d, 24 of them unless the
\* quotient ends earlier, with the remainder r and the scale k
RECURSIVE DivBits(_, _, _, _)
DivBits(q, r, k, d) ==
    IF r = 0 \/ q >= 2^23 THEN [q |-> q, r |-> r, k |-> k]
    ELSE DivBits(2 * q + (IF 2 * r >= d THEN 1 ELSE 0), (2 * r) % d, k + 1, d)

\* float(e) / float(d), for integers 0 <= e and 0 < d
F32Div(e, d) ==
    LET b == DivBits(e \div d, e % d, 0, d)
        up == 2 * b.r > d \/ (2 * b.r = d /\ b.q % 2 = 1)
    IN [n |-> IF up THEN b.q + 1 ELSE b.q, k |-> b.k]

\* float(a) * f, for an integer a
F32MulInt(a, f) == F32Round(a * f.n, f.k, FALSE)

\* float(a) + f, for an integer a; below the 24th binary place f only
\* tells whether anything is there (|a| >= 2 when it is)
F32AddInt(a, f) ==
    IF a = 0 THEN f
    ELSE IF f.k <= 24 THEN F32Round(a * 2^(f.k) + f.n, f.k, FALSE)
    ELSE LET j == f.k - 24
             qf == FloorDiv(f.n, 2^j)
             r == f.n - qf * 2^j
             ns == a * 2^24 + qf
         IN IF r = 0 THEN F32Round(ns, 24, FALSE)
            ELSE IF ns >= 0 THEN F32Round(ns, 24, TRUE)
            ELSE F32Round(ns + 1, 24, TRUE)

\* A cast to int that rounds toward minus infinity instead of toward zero
F32ToInt_Floor(f) ==
    IF f.k > 24 THEN (IF f.n < 0 THEN -1 ELSE 0) ELSE FloorDiv(f.n, 2^(f.k))

\* static_cast<int>(f)
F32ToInt(f) == IF f.k > 24 THEN 0 ELSE TruncDiv(f.n, 2^(f.k))

\* lerp(a, b, t) with t = float(e) / float(d) and no curve: a + (b - a) * t
\* in single precision.  The int overload casts the float result; scale and
\* alpha, held in thousandths, go through the same steps.
lerp(a, b, e, d) == F32ToInt(F32AddInt(a, F32MulInt(b - a, F32Div(e, d))))

\* A tick that ends the animation where the value happens to be
AVtick_StopShort(av, t) ==
    IF ~av.m_animating THEN av
    ELSE LET e == Elapsed(av, t)
         IN IF e >= av.m_durationMs
            THEN [av EXCEPT !.m_animating = FALSE]
            ELSE [av EXCEPT !.m_value = lerp(av.m_start, av.m_goal, e, av.m_durationMs)]

\* AnimatedVar::tick: the scalar after the call
AVtick(av, t) ==
    IF ~av.m_animating THEN av
    ELSE LET e == Elapsed(av, t)
         IN IF e >= av.m_durationMs
            THEN [av EXCEPT !.m_value = av.m_goal, !.m_animating = FALSE]
            ELSE [av EXCEPT !.m_value = lerp(av.m_start, av.m_goal, e, av.m_durationMs)]

\* A tick that reports the animation over from half the duration on
AVtickResult_HalfWay(av, t) ==
    IF ~av.m_animating THEN FALSE
    ELSE 2 * Elapsed(av, t) < av.m_durationMs

\* AnimatedVar::tick: the value it returns
AVtickResult(av, t) ==
    IF ~av.m_animating THEN FALSE
    ELSE Elapsed(av, t) < av.m_durationMs

\* ------------------------------------------------------- AnimatedGeometry
\* The clock: every scalar samples high_resolution_clock::now() itself.  A
\* clock value clk = [t, bump] reads t at sampling positions below bump and
\* t + 1 from position bump on; position -1 is the enter/exit effect, the
\* scalar idx of the node of pre-order rank r is at 6 * r + idx.
ClockRead(clk, pos) == IF pos >= clk.bump THEN clk.t + 1 ELSE clk.t
NoBump == 6 * (2 * MaxViews + 2)
SteadyClock(t) == [t |-> t, bump |-> NoBump]

AnimatedGeometry ==
    [x |-> AnimatedVar(0), y |-> AnimatedVar(0),
     width |-> AnimatedVar(InitialExtent), height |-> AnimatedVar(InitialExtent),
     scale |-> AnimatedVar(FloatOne), alpha |-> AnimatedVar(FloatOne)]

AGsetConfig(g, durationMs) ==
    [x |-> AVsetConfig(g.x, durationMs), y |-> AVsetConfig(g.y, durationMs),
     width |-> AVsetConfig(g.width, durationMs), height |-> AVsetConfig(g.height, durationMs),
     scale |-> AVsetConfig(g.scale, durationMs), alpha |-> AVsetConfig(g.alpha, durationMs)]

\* A setGoal that also sends the scale and the alpha to 1
AGsetGoal_WithScale(g, geo, animate, clk, rank) ==
    [g EXCEPT !.x = AVset(g.x, geo.x, animate, ClockRead(clk, 6 * rank)),
              !.y = AVset(g.y, geo.y, animate, ClockRead(clk, 6 * rank + 1)),
              !.width = AVset(g.width, geo.width, animate, ClockRead(clk, 6 * rank + 2)),
              !.height = AVset(g.height, geo.height, animate, ClockRead(clk, 6 * rank + 3)),
              !.scale = AVset(g.scale, FloatOne, animate, ClockRead(clk, 6 * rank + 4)),
              !.alpha = AVset(g.alpha, FloatOne, animate, ClockRead(clk, 6 * rank + 5))]

AGsetGoal(g, geo, animate, clk, rank) ==
    [g EXCEPT !.x = AVset(g.x, geo.x, animate, ClockRead(clk, 6 * rank)),
              !.y = AVset(g.y, geo.y, animate, ClockRead(clk, 6 * rank + 1)),
              !.width = AVset(g.width, geo.width, animate, ClockRead(clk, 6 * rank + 2)),
              !.height = AVset(g.height, geo.height, animate, ClockRead(clk, 6 * rank + 3))]

AGwarp(g, geo) ==
    [g EXCEPT !.x = AVwarp(g.x, geo.x), !.y = AVwarp(g.y, geo.y),
              !.width = AVwarp(g.width, geo.width),
              !.height = AVwarp(g.height, geo.height)]

startPopin(g, fromScale, clk) ==
    [g EXCEPT !.scale = AVset(AVwarp(g.scale, fromScale), FloatOne, TRUE, ClockRead(clk, -1)),
              !.alpha = AVset(AVwarp(g.alpha, 0), FloatOne, TRUE, ClockRead(clk, -1))]

startPopout(g, toScale, clk) ==
    [g EXCEPT !.scale = AVset(g.scale, toScale, TRUE, ClockRead(clk, -1)),
              !.alpha = AVset(g.alpha, 0, TRUE, ClockRead(clk, -1))]

\* x.tick() || y.tick() || ...: the scalars after the first one that is
\* still animating are not ticked
AGtick_ShortCircuit(g, clk, rank) ==
    LET x == AVtick(g.x, ClockRead(clk, 6 * rank))
    IN IF x.m_animating THEN [g EXCEPT !.x = x]
       ELSE [x |-> x,
             y |-> AVtick(g.y, ClockRead(clk, 6 * rank + 1)),
             width |-> AVtick(g.width, ClockRead(clk, 6 * rank + 2)),
             height |-> AVtick(g.height, ClockRead(clk, 6 * rank + 3)),
             scale |-> AVtick(g.scale, ClockRead(clk, 6 * rank + 4)),
             alpha |-> AVtick(g.alpha, ClockRead(clk, 6 * rank + 5))]

AGtick(g, clk, rank) ==
    [x |-> AVtick(g.x, ClockRead(clk, 6 * rank)),
     y |-> AVtick(g.y, ClockRead(clk, 6 * rank + 1)),
     width |-> AVtick(g.width, ClockRead(clk, 6 * rank + 2)),
     height |-> AVtick(g.height, ClockRead(clk, 6 * rank + 3)),
     scale |-> AVtick(g.scale, ClockRead(clk, 6 * rank + 4)),
     alpha |-> AVtick(g.alpha, ClockRead(clk, 6 * rank + 5))]

AGtickResult(g, clk, rank) ==
    \/ AVtickResult(g.x, ClockRead(clk, 6 * rank))
    \/ AVtickResult(g.y, ClockRead(clk, 6 * rank + 1))
    \/ AVtickResult(g.width, ClockRead(clk, 6 * rank + 2))
    \/ AVtickResult(g.height, ClockRead(clk, 6 * rank + 3))
    \/ AVtickResult(g.scale, ClockRead(clk, 6 * rank + 4))
    \/ AVtickResult(g.alpha, ClockRead(clk, 6 * rank + 5))

AGcurrent(g) == Rect(g.x.m_value, g.y.m_value, g.width.m_value, g.height.m_value)
AGgoal(g) == Rect(g.x.m_goal, g.y.m_goal, g.width.m_goal, g.height.m_goal)
AGisAnimating(g) ==
    \/ g.x.m_animating \/ g.y.m_animating \/ g.width.m_animating
    \/ g.height.m_animating \/ g.scale.m_animating \/ g.alpha.m_animating

\* --------------------------------------------------------------- TileNode
\* A heap slot that holds no node
FreeNode == [m_free |-> TRUE]
EmptyHeap == [n \in NodeIds |-> FreeNode]
IsLive(h, n) == n \in NodeIds /\ h[n] # FreeNode
LiveNodes(h) == {n \in NodeIds : h[n] # FreeNode}
\* std::make_shared<TileNode>() hands out any address no live node has.  The
\* model gives the leaf of window v the slot v when that slot is free, and
\* otherwise, as for every split, the lowest free slot (splits first).
LowestFree(h, ids) == CHOOSE n \in ids : h[n] = FreeNode /\ \A k \in ids : k < n => h[k] # FreeNode
HasFree(h, ids) == \E n \in ids : h[n] = FreeNode
NewNode(h) == IF HasFree(h, SplitIds) THEN LowestFree(h, SplitIds) ELSE LowestFree(h, LeafIds)
NewLeafNode(h, view) == IF view \in LeafIds /\ h[view] = FreeNode THEN view ELSE NewNode(h)

\* TileNode's default member initialisers
TileNode ==
    [m_isLeaf |-> TRUE, m_view |-> NoView, m_splitDir |-> HORIZONTAL,
     m_children |-> (0 :> Null @@ 1 :> Null), m_parent |-> Null,
     m_geometry |-> AnimatedGeometry, m_isPseudotiled |-> FALSE,
     m_preferredSize |-> Rect(0, 0, 0, 0), m_splitLocked |-> FALSE]

createLeaf(h, id, view) ==
    [h EXCEPT ![id] = [TileNode EXCEPT !.m_view = view, !.m_isLeaf = TRUE]]

\* createSplit that forgets its right child
createSplit_DropRight(h, id, dir, left, right) ==
    LET h1 == [h EXCEPT ![id] = [TileNode EXCEPT !.m_isLeaf = FALSE, !.m_splitDir = dir,
                                                 !.m_children = (0 :> left @@ 1 :> Null)]]
    IN IF left # Null THEN [h1 EXCEPT ![left].m_parent = id] ELSE h1

createSplit(h, id, dir, left, right) ==
    LET h1 == [h EXCEPT ![id] = [TileNode EXCEPT !.m_isLeaf = FALSE, !.m_splitDir = dir,
                                                 !.m_children = (0 :> left @@ 1 :> right)]]
        h2 == IF left # Null THEN [h1 EXCEPT ![left].m_parent = id] ELSE h1
    IN IF right # Null THEN [h2 EXCEPT ![right].m_parent = id] ELSE h2

child(h, n, idx) == IF idx >= 0 /\ idx < 2 THEN h[n].m_children[idx] ELSE Null

\* setChild that leaves the new child's back-reference as it was
setChild_KeepParent(h, n, idx, newChild) ==
    IF idx < 0 \/ idx > 1 THEN h
    ELSE [h EXCEPT ![n].m_children[idx] = newChild]

setChild(h, n, idx, newChild) ==
    IF idx < 0 \/ idx > 1 THEN h
    ELSE LET h1 == [h EXCEPT ![n].m_children[idx] = newChild]
         IN IF newChild # Null THEN [h1 EXCEPT ![newChild].m_parent = n] ELSE h1

\* m_parent.lock()
parent(h, n) == IF IsLive(h, h[n].m_parent) THEN h[n].m_parent ELSE Null

\* TileNode::setConfig
nodeSetConfig(h, n, durationMs) ==
    [h EXCEPT ![n].m_geometry = AGsetConfig(@, durationMs)]

setParent(h, n, p) == [h EXCEPT ![n].m_parent = p]
clearParent(h, n) == [h EXCEPT ![n].m_parent = Null]

childIndex(h, n) ==
    LET p == parent(h, n)
    IN IF p = Null THEN -1
       ELSE IF child(h, p, 0) = n THEN 0
       ELSE IF child(h, p, 1) = n THEN 1
       ELSE -1

sibling(h, n) ==
    LET p == parent(h, n)
        idx == childIndex(h, n)
    IN IF p = Null THEN Null
       ELSE IF idx < 0 THEN Null
       ELSE child(h, p, 1 - idx)

RECURSIVE findView(_, _, _)
findView(h, n, v) ==
    IF h[n].m_isLeaf THEN (IF h[n].m_view = v THEN n ELSE Null)
    ELSE LET c0 == h[n].m_children[0]
             c1 == h[n].m_children[1]
             f0 == IF c0 # Null THEN findView(h, c0, v) ELSE Null
         IN IF f0 # Null THEN f0
            ELSE IF c1 # Null THEN findView(h, c1, v)
            ELSE Null

RECURSIVE collectViews(_, _)
collectViews(h, n) ==
    IF h[n].m_isLeaf THEN (IF h[n].m_view # NoView THEN <<h[n].m_view>> ELSE <<>>)
    ELSE (IF h[n].m_children[0] # Null THEN collectViews(h, h[n].m_children[0]) ELSE <<>>)
         \o (IF h[n].m_children[1] # Null THEN collectViews(h, h[n].m_children[1]) ELSE <<>>)

\* A count that takes every node, splits too, for a leaf
RECURSIVE countLeaves_EveryNode(_, _)
countLeaves_EveryNode(h, n) ==
    IF h[n].m_isLeaf THEN (IF h[n].m_view # NoView THEN 1 ELSE 0)
    ELSE 1 + (IF h[n].m_children[0] # Null THEN countLeaves_EveryNode(h, h[n].m_children[0]) ELSE 0)
           + (IF h[n].m_children[1] # Null THEN countLeaves_EveryNode(h, h[n].m_children[1]) ELSE 0)

RECURSIVE countLeaves(_, _)
countLeaves(h, n) ==
    IF h[n].m_isLeaf THEN (IF h[n].m_view # NoView THEN 1 ELSE 0)
    ELSE (IF h[n].m_children[0] # Null THEN countLeaves(h, h[n].m_children[0]) ELSE 0)
         + (IF h[n].m_children[1] # Null THEN countLeaves(h, h[n].m_children[1]) ELSE 0)

\* Number of nodes of the subtree of n: the pre-order rank of a second child
\* is its parent's rank + 1 + the size of the first child's subtree.
RECURSIVE SubtreeSize(_, _)
SubtreeSize(h, n) ==
    IF n = Null THEN 0
    ELSE IF h[n].m_isLeaf THEN 1
    ELSE 1 + SubtreeSize(h, h[n].m_children[0]) + SubtreeSize(h, h[n].m_children[1])

\* The direction applyLayout recomputes from the aspect ratio:
\* bounds.width * splitWidthMultiplier > bounds.height
AspectDir(bounds, mult) ==
    IF bounds.width * mult.num > bounds.height * mult.den THEN HORIZONTAL ELSE VERTICAL

\* applyLayout that recomputes the direction of a locked split too
LayoutDir_IgnoreLock(node, bounds, preserveSplit, mult) ==
    IF ~preserveSplit THEN AspectDir(bounds, mult) ELSE node.m_splitDir

\* The direction a split has once applyLayout has passed its first lines
LayoutDir(node, bounds, preserveSplit, mult) ==
    IF ~preserveSplit /\ ~node.m_splitLocked THEN AspectDir(bounds, mult)
    ELSE node.m_splitDir

\* The first child's share rounded down
FirstShare_Floor(available) ==
    LET p == available * SplitRatioNum
    IN IF p >= 0 THEN p \div SplitRatioDen ELSE -((SplitRatioDen - 1 - p) \div SplitRatioDen)

\* static_cast<int>(available * m_splitRatio)
FirstShare(available) == TruncDiv(available * SplitRatioNum, SplitRatioDen)

child1Bounds(bounds, dir, gapIn) ==
    IF dir = HORIZONTAL
    THEN Rect(bounds.x, bounds.y, FirstShare(bounds.width - gapIn), bounds.height)
    ELSE Rect(bounds.x, bounds.y, bounds.width, FirstShare(bounds.height - gapIn))

\* child2Bounds that starts the second child where the first one ends
child2Bounds_NoGap(bounds, dir, gapIn) ==
    IF dir = HORIZONTAL
    THEN LET width1 == FirstShare(bounds.width - gapIn)
         IN Rect(bounds.x + width1, bounds.y, (bounds.width - gapIn) - width1, bounds.height)
    ELSE LET height1 == FirstShare(bounds.height - gapIn)
         IN Rect(bounds.x, bounds.y + height1, bounds.width, (bounds.height - gapIn) - height1)

child2Bounds(bounds, dir, gapIn) ==
    IF dir = HORIZONTAL
    THEN LET width1 == FirstShare(bounds.width - gapIn)
         IN Rect(bounds.x + width1 + gapIn, bounds.y, (bounds.width - gapIn) - width1, bounds.height)
    ELSE LET height1 == FirstShare(bounds.height - gapIn)
         IN Rect(bounds.x, bounds.y + height1 + gapIn, bounds.width, (bounds.height - gapIn) - height1)

\* TileNode::applyLayout on node n (of pre-order rank `rank`): the heap after
RECURSIVE applyLayout(_, _, _, _, _, _, _, _, _)
applyLayout(h, n, bounds, gapIn, gapOut, preserveSplit, mult, animate, ck) ==
    LET h1 == [h EXCEPT ![n].m_geometry = AGsetGoal(h[n].m_geometry, bounds, animate, ck.clk, ck.rank)]
    IN IF h[n].m_isLeaf THEN h1
       ELSE LET dir == LayoutDir(h[n], bounds, preserveSplit, mult)
                h2 == [h1 EXCEPT ![n].m_splitDir = dir]
                c0 == h[n].m_children[0]
                c1 == h[n].m_children[1]
                h3 == IF c0 # Null
                      THEN applyLayout(h2, c0, child1Bounds(bounds, dir, gapIn), gapIn, gapOut,
                                       preserveSplit, mult, animate,
                                       [clk |-> ck.clk, rank |-> ck.rank + 1])
                      ELSE h2
            IN IF c1 # Null
               THEN applyLayout(h3, c1, child2Bounds(bounds, dir, gapIn), gapIn, gapOut,
                                preserveSplit, mult, animate,
                                [clk |-> ck.clk, rank |-> ck.rank + 1 + SubtreeSize(h, c0)])
               ELSE h3

\* TileNode::tickAnimation: the heap after
RECURSIVE tickAnimation(_, _, _, _)
tickAnimation(h, n, clk, rank) ==
    LET h1 == [h EXCEPT ![n].m_geometry = AGtick(h[n].m_geometry, clk, rank)]
    IN IF h[n].m_isLeaf THEN h1
       ELSE LET c0 == h[n].m_children[0]
                c1 == h[n].m_children[1]
                h2 == IF c0 # Null THEN tickAnimation(h1, c0, clk, rank + 1) ELSE h1
            IN IF c1 # Null THEN tickAnimation(h2, c1, clk, rank + 1 + SubtreeSize(h, c0)) ELSE h2

\* TileNode::tickAnimation: the value it returns
RECURSIVE tickAnimationResult(_, _, _, _)
tickAnimationResult(h, n, clk, rank) ==
    LET a == AGtickResult(h[n].m_geometry, clk, rank)
    IN IF h[n].m_isLeaf THEN a
       ELSE LET c0 == h[n].m_children[0]
                c1 == h[n].m_children[1]
                a0 == IF c0 # Null THEN tickAnimationResult(h, c0, clk, rank + 1) ELSE FALSE
                a1 == IF c1 # Null THEN tickAnimationResult(h, c1, clk, rank + 1 + SubtreeSize(h, c0)) ELSE FALSE
            IN a \/ a0 \/ a1

\* What is left of the heap once a handler has returned: a node whose last
\* shared_ptr is gone (no m_root, no child slot of a node that is still
\* alive) is destroyed, which drops the children it owned in turn; a
\* weak_ptr to a destroyed node reads as nullptr.
Owned(h, root) ==
    {root} \cup {h[n].m_children[0] : n \in LiveNodes(h)} \cup {h[n].m_children[1] : n \in LiveNodes(h)}

RECURSIVE Destroy(_, _)
Destroy(h, root) ==
    LET dead == {n \in LiveNodes(h) : n \notin Owned(h, root)}
    IN IF dead = {} THEN h
       ELSE Destroy([n \in NodeIds |-> IF n \in dead THEN FreeNode ELSE h[n]], root)

Release(h, root) ==
    LET h1 == Destroy(h, root)
    IN [n \in NodeIds |->
          IF h1[n] = FreeNode THEN FreeNode
          ELSE IF h1[n].m_parent # Null /\ ~IsLive(h1, h1[n].m_parent)
               THEN [h1[n] EXCEPT !.m_parent = Null]
               ELSE h1[n]]

\* --------------------------------------------------------------- TileTree
\* The values the model draws the configuration and the inputs from
BoundsSet == {Rect(0, 0, 1920, 1080), Rect(0, 0, 22, 31)}
CursorSet == {[x |-> 0, y |-> 0], [x |-> 1500, y |-> 600]}
MultiplierSet == {[num |-> 1, den |-> 1], [num |-> 1, den |-> 2]}
ForceSplitSet == {0, 1, 2}
MsgSet == {"togglesplit", "swapnext", "swapprev", "pseudo", "unknown"}
\* what targetView->get_geometry() reports to the pseudotile message
ViewGeometrySet == {Rect(0, 0, 640, 480), Rect(5, 5, 300, 200)}

\* TileTree's default member initialisers
TileTree ==
    [heap |-> EmptyHeap, m_root |-> Null, m_bounds |-> Rect(0, 0, 1920, 1080),
     m_durationMs |-> DefaultDurationMs, m_gapIn |-> DefaultGapIn, m_gapOut |-> DefaultGapOut, m_preserveSplit |-> FALSE,
     m_splitWidthMultiplier |-> [num |-> 1, den |-> 1], m_forceSplit |-> 0,
     m_smartSplit |-> FALSE, m_focusedView |-> NoView, m_cursorPos |-> [x |-> 0, y |-> 0]]

\* TileTree::setConfig (the curve it is handed is nullptr)
setConfig(T, durationMs, gapIn, gapOut, preserveSplit, splitWidthMultiplier, forceSplit, smartSplit) ==
    [T EXCEPT !.m_durationMs = durationMs, !.m_gapIn = gapIn, !.m_gapOut = gapOut, !.m_preserveSplit = preserveSplit,
              !.m_splitWidthMultiplier = splitWidthMultiplier, !.m_forceSplit = forceSplit,
              !.m_smartSplit = smartSplit]

setBounds(T, bounds) == [T EXCEPT !.m_bounds = bounds]
setFocusedView(T, view) == [T EXCEPT !.m_focusedView = view]
setCursorPosition(T, pos) == [T EXCEPT !.m_cursorPos = pos]

\* effectiveBounds without the outer gap
effectiveBounds_NoGapOut(T) == T.m_bounds

effectiveBounds(T) ==
    Rect(T.m_bounds.x + T.m_gapOut, T.m_bounds.y + T.m_gapOut,
         T.m_bounds.width - 2 * T.m_gapOut, T.m_bounds.height - 2 * T.m_gapOut)

\* recalculateLayout that hands animate = false down, whatever it is given
recalculateLayout_NoAnimate(T, animate, clk) ==
    IF T.m_root # Null
    THEN [T EXCEPT !.heap = applyLayout(T.heap, T.m_root, effectiveBounds(T), T.m_gapIn,
                                        T.m_gapOut, T.m_preserveSplit,
                                        T.m_splitWidthMultiplier, FALSE,
                                        [clk |-> clk, rank |-> 0])]
    ELSE T

recalculateLayout(T, animate, clk) ==
    IF T.m_root # Null
    THEN [T EXCEPT !.heap = applyLayout(T.heap, T.m_root, effectiveBounds(T), T.m_gapIn,
                                        T.m_gapOut, T.m_preserveSplit,
                                        T.m_splitWidthMultiplier, animate,
                                        [clk |-> clk, rank |-> 0])]
    ELSE T

\* relX > relY for the floats relX = n1 / d1 and relY = n2 / d2 (n1, n2 >= 0):
\* x / 0 is +inf for x > 0 and NaN for x = 0, and a comparison with NaN is
\* false.  The quotients of the model's small integers are far enough apart
\* for float rounding not to change the comparison.
FloatQuotientGt(n1, d1, n2, d2) ==
    IF (n1 = 0 /\ d1 = 0) \/ (n2 = 0 /\ d2 = 0) THEN FALSE
    ELSE IF d1 = 0 THEN d2 # 0
    ELSE IF d2 = 0 THEN FALSE
    ELSE IF (d1 > 0) = (d2 > 0) THEN n1 * d2 > n2 * d1
    ELSE n1 * d2 < n2 * d1

\* The cursor branch of determineSplitDirection on a goal rectangle
SmartDir(nodeGeo, cursor) ==
    LET centerX == nodeGeo.x + TruncDiv(nodeGeo.width, 2)
        centerY == nodeGeo.y + TruncDiv(nodeGeo.height, 2)
        dx == Abs(cursor.x - centerX)
        dy == Abs(cursor.y - centerY)
    IN IF FloatQuotientGt(dx, TruncDiv(nodeGeo.width, 2), dy, TruncDiv(nodeGeo.height, 2))
       THEN HORIZONTAL ELSE VERTICAL

determineSplitDirection(T, h, bounds, existingNode) ==
    IF T.m_smartSplit /\ existingNode # Null
    THEN SmartDir(AGgoal(h[existingNode].m_geometry), T.m_cursorPos)
    ELSE AspectDir(bounds, T.m_splitWidthMultiplier)

calculateNewWindowStart(bounds, dir, newOnLeft) ==
    IF dir = HORIZONTAL
    THEN LET halfWidth == TruncDiv(bounds.width, 2)
         IN IF newOnLeft THEN Rect(bounds.x, bounds.y, halfWidth, bounds.height)
            ELSE Rect(bounds.x + halfWidth, bounds.y, halfWidth, bounds.height)
    ELSE LET halfHeight == TruncDiv(bounds.height, 2)
         IN IF newOnLeft THEN Rect(bounds.x, bounds.y, bounds.width, halfHeight)
            ELSE Rect(bounds.x, bounds.y + halfHeight, bounds.width, halfHeight)

\* A fallback that prefers child 0: the deepest, leftmost leaf
RECURSIVE findLastLeaf_Child0(_, _)
findLastLeaf_Child0(h, node) ==
    IF node = Null THEN Null
    ELSE IF h[node].m_isLeaf THEN node
    ELSE LET found == IF child(h, node, 0) # Null THEN findLastLeaf_Child0(h, child(h, node, 0)) ELSE Null
         IN IF found # Null THEN found ELSE findLastLeaf_Child0(h, child(h, node, 1))

RECURSIVE findLastLeaf(_, _)
findLastLeaf(h, node) ==
    IF node = Null THEN Null
    ELSE IF h[node].m_isLeaf THEN node
    ELSE LET found == IF child(h, node, 1) # Null THEN findLastLeaf(h, child(h, node, 1)) ELSE Null
         IN IF found # Null THEN found ELSE findLastLeaf(h, child(h, node, 0))

\* A choice of side that looks at force_split only
NewOnRight_ForceOnly(T, existingGeo, dir) == T.m_forceSplit # 1

\* insertAtLeaf's choice of the side of the new leaf
NewOnRight(T, existingGeo, dir) ==
    IF T.m_forceSplit = 0 /\ T.m_smartSplit
    THEN IF dir = HORIZONTAL
         THEN T.m_cursorPos.x > existingGeo.x + TruncDiv(existingGeo.width, 2)
         ELSE T.m_cursorPos.y > existingGeo.y + TruncDiv(existingGeo.height, 2)
    ELSE T.m_forceSplit # 1

\* TileTree::insertAtLeaf: the tree after (the leaves are already in the heap)
insertAtLeaf(T, existingLeaf, newLeaf) ==
    LET h == T.heap
        p == parent(h, existingLeaf)
        existingChildIdx == childIndex(h, existingLeaf)
        existingGeo == AGgoal(h[existingLeaf].m_geometry)
        dir == determineSplitDirection(T, h, existingGeo, existingLeaf)
        newOnRight == NewOnRight(T, existingGeo, dir)
        newLeafStart == calculateNewWindowStart(existingGeo, dir, ~newOnRight)
        h1 == [h EXCEPT ![newLeaf].m_geometry = AGwarp(@, newLeafStart)]
        first == IF newOnRight THEN existingLeaf ELSE newLeaf
        second == IF newOnRight THEN newLeaf ELSE existingLeaf
        newSplit == NewNode(h1)
        h2 == nodeSetConfig(createSplit(h1, newSplit, dir, first, second), newSplit, T.m_durationMs)
    IN IF p = Null THEN [T EXCEPT !.heap = h2, !.m_root = newSplit]
       ELSE [T EXCEPT !.heap = setChild(h2, p, existingChildIdx, newSplit)]

\* addView that always splits the last leaf, whatever window has the focus
TargetLeaf_IgnoreFocus(T, h) == findLastLeaf(h, T.m_root)

\* The leaf addView splits when the tree holds two or more windows
TargetLeaf(T, h) ==
    LET focused == IF T.m_focusedView # NoView THEN findView(h, T.m_root, T.m_focusedView) ELSE Null
    IN IF focused # Null THEN focused ELSE findLastLeaf(h, T.m_root)

\* TileTree::addView: the tree after the call has returned
addView(T, view, animate, clk) ==
    LET newLeaf == NewLeafNode(T.heap, view)
        h0 == nodeSetConfig(createLeaf(T.heap, newLeaf, view), newLeaf, T.m_durationMs)
        eb == effectiveBounds(T)
        T1 == IF T.m_root = Null
              THEN [T EXCEPT !.m_root = newLeaf,
                             !.heap = [h0 EXCEPT ![newLeaf].m_geometry =
                                          startPopin(AGwarp(@, eb), PopScale, clk)]]
              ELSE IF h0[T.m_root].m_isLeaf
              THEN LET dir == determineSplitDirection(T, h0, eb, T.m_root)
                       first == IF T.m_forceSplit = 1 THEN newLeaf ELSE T.m_root
                       second == IF T.m_forceSplit = 1 THEN T.m_root ELSE newLeaf
                       newRoot == NewNode(h0)
                       h1 == nodeSetConfig(createSplit(h0, newRoot, dir, first, second), newRoot, T.m_durationMs)
                       h2 == setParent(setParent(h1, first, newRoot), second, newRoot)
                       startGeo == calculateNewWindowStart(eb, dir, T.m_forceSplit = 1)
                   IN [T EXCEPT !.m_root = newRoot,
                                !.heap = [h2 EXCEPT ![newLeaf].m_geometry =
                                             startPopin(AGwarp(@, startGeo), PopScale, clk)]]
              ELSE LET targetLeaf == TargetLeaf(T, h0)
                   IN IF targetLeaf # Null
                      THEN LET T0 == insertAtLeaf([T EXCEPT !.heap = h0], targetLeaf, newLeaf)
                           IN [T0 EXCEPT !.heap[newLeaf].m_geometry = startPopin(@, PopScale, clk)]
                      ELSE [T EXCEPT !.heap = h0]
        T2 == recalculateLayout(T1, animate, clk)
    IN [T2 EXCEPT !.heap = Release(T2.heap, T2.m_root)]

\* removeView on the only window that keeps the root
removeRootLeaf_KeepRoot(T) == T

\* removeView on the only window: the root leaf goes
removeRootLeaf(T) == [T EXCEPT !.m_root = Null]

\* removeView that makes the sibling the root wherever the parent was
promoteSibling_AlwaysRoot(T, node, p) ==
    LET h == T.heap
        sib == child(h, p, 1 - childIndex(h, node))
    IN [T EXCEPT !.m_root = sib,
                 !.heap = IF sib # Null THEN clearParent(h, sib) ELSE h]

\* removeView on a leaf with parent p: the sibling takes the parent's place
promoteSibling(T, node, p) ==
    LET h == T.heap
        nodeIdx == childIndex(h, node)
        siblingIdx == 1 - nodeIdx
        sib == child(h, p, siblingIdx)
        grandparent == parent(h, p)
    IN IF grandparent = Null
       THEN [T EXCEPT !.m_root = sib,
                      !.heap = IF sib # Null THEN clearParent(h, sib) ELSE h]
       ELSE [T EXCEPT !.heap = setChild(h, grandparent, childIndex(h, p), sib)]

\* TileTree::removeView: the tree after the call has returned
removeView(T, view, animate, clk) ==
    IF T.m_root = Null THEN T
    ELSE LET node == findView(T.heap, T.m_root, view)
         IN IF node = Null THEN T
            ELSE LET T0 == [T EXCEPT !.heap[node].m_geometry = startPopout(@, PopScale, clk)]
                     p == parent(T0.heap, node)
                 IN IF p = Null
                    THEN LET T1 == removeRootLeaf(T0)
                         IN [T1 EXCEPT !.heap = Release(T1.heap, T1.m_root)]
                    ELSE LET T2 == recalculateLayout(promoteSibling(T0, node, p), animate, clk)
                         IN [T2 EXCEPT !.heap = Release(T2.heap, T2.m_root)]

hasView(T, view) == IF T.m_root = Null THEN FALSE ELSE findView(T.heap, T.m_root, view) # Null

tickAnimations(T, clk) ==
    IF T.m_root = Null THEN T
    ELSE [T EXCEPT !.heap = tickAnimation(T.heap, T.m_root, clk, 0)]

tickAnimationsResult(T, clk) ==
    IF T.m_root = Null THEN FALSE ELSE tickAnimationResult(T.heap, T.m_root, clk, 0)

\* std::optional<wf::geometry_t>: <<>> is std::nullopt
getViewGeometry(T, view) ==
    IF T.m_root = Null THEN <<>>
    ELSE LET node == findView(T.heap, T.m_root, view)
         IN IF node = Null THEN <<>> ELSE <<AGcurrent(T.heap[node].m_geometry)>>

getViewGoalGeometry(T, view) ==
    IF T.m_root = Null THEN <<>>
    ELSE LET node == findView(T.heap, T.m_root, view)
         IN IF node = Null THEN <<>> ELSE <<AGgoal(T.heap[node].m_geometry)>>

getViewScaleAlpha(T, view) ==
    IF T.m_root = Null THEN <<FloatOne, FloatOne>>
    ELSE LET node == findView(T.heap, T.m_root, view)
         IN IF node = Null THEN <<FloatOne, FloatOne>>
            ELSE <<T.heap[node].m_geometry.scale.m_value, T.heap[node].m_geometry.alpha.m_value>>

getViews(T) == IF T.m_root # Null THEN collectViews(T.heap, T.m_root) ELSE <<>>

isEmpty(T) == T.m_root = Null \/ countLeaves(T.heap, T.m_root) = 0

\* The node a layout message acts on
\* The message target that falls back to the focused window when the named
\* window is not in the tree
TargetNode_FallBackToFocus(T, targetView) ==
    LET named == IF targetView # NoView THEN findView(T.heap, T.m_root, targetView) ELSE Null
    IN IF named # Null THEN named
       ELSE IF T.m_focusedView # NoView THEN findView(T.heap, T.m_root, T.m_focusedView)
       ELSE Null

TargetNode(T, targetView) ==
    IF targetView # NoView THEN findView(T.heap, T.m_root, targetView)
    ELSE IF T.m_focusedView # NoView THEN findView(T.heap, T.m_root, T.m_focusedView)
    ELSE Null

\* togglesplit that flips the direction and leaves the lock alone
toggleSplit_NoLock(T, p) ==
    LET newDir == IF T.heap[p].m_splitDir = HORIZONTAL THEN VERTICAL ELSE HORIZONTAL
    IN [T EXCEPT !.heap[p].m_splitDir = newDir]

\* "togglesplit": the parent's direction flips and is locked
toggleSplit(T, p) ==
    LET newDir == IF T.heap[p].m_splitDir = HORIZONTAL THEN VERTICAL ELSE HORIZONTAL
    IN [T EXCEPT !.heap[p].m_splitDir = newDir, !.heap[p].m_splitLocked = TRUE]

\* A swap that puts the sibling in the target's slot and stops there
swapSibling_OneSided(T, targetNode, sib, p) ==
    [T EXCEPT !.heap = setChild(T.heap, p, childIndex(T.heap, targetNode), sib)]

\* "swapnext" / "swapprev": the target and its sibling change slots
swapSibling(T, targetNode, sib, p) ==
    LET targetIdx == childIndex(T.heap, targetNode)
        siblingIdx == childIndex(T.heap, sib)
        h1 == setChild(T.heap, p, targetIdx, sib)
    IN [T EXCEPT !.heap = setChild(h1, p, siblingIdx, targetNode)]

\* "pseudo": viewGeo is what targetView->get_geometry() returns
togglePseudotile(T, targetNode, targetView, viewGeo) ==
    LET pseudo == ~T.heap[targetNode].m_isPseudotiled
        T1 == [T EXCEPT !.heap[targetNode].m_isPseudotiled = pseudo]
    IN IF pseudo /\ targetView # NoView
       THEN [T1 EXCEPT !.heap[targetNode].m_preferredSize = viewGeo]
       ELSE T1

\* TileTree::handleLayoutMessage: the tree after the call has returned
handleLayoutMessage(T, msg, targetView, viewGeo, clk) ==
    IF T.m_root = Null THEN T
    ELSE LET targetNode == TargetNode(T, targetView)
         IN IF targetNode = Null THEN T
            ELSE LET p == parent(T.heap, targetNode)
                 IN IF p = Null THEN T
                    ELSE IF msg = "togglesplit"
                    THEN recalculateLayout(toggleSplit(T, p), TRUE, clk)
                    ELSE IF msg = "swapnext" \/ msg = "swapprev"
                    THEN LET sib == sibling(T.heap, targetNode)
                         IN IF sib # Null /\ p # Null
                            THEN LET T1 == recalculateLayout(swapSibling(T, targetNode, sib, p), TRUE, clk)
                                 IN [T1 EXCEPT !.heap = Release(T1.heap, T1.m_root)]
                            ELSE T
                    ELSE IF msg = "pseudo"
                    THEN recalculateLayout(togglePseudotile(T, targetNode, targetView, viewGeo), TRUE, clk)
                    ELSE T

\* ----------------------------------------------------- AnimatedTilePlugin
\* The workspaces of the output, by index
Workspaces == {1, 2}
\* ViewAnimData::workspaceIndex of a view that has no ViewAnimData
NoWorkspace == -1
\* What set_geometry has been called with for a view: <<>> before any call
NotApplied == <<>>

\* The plugin after init(): no tree, the loop not running.  effect is the
\* compositor's side of add_effect / rem_effect, applied the rectangle of
\* the last set_geometry call for each view.
PluginWith(opt) ==
    [m_trees |-> <<>>, m_workspaceBounds |-> Rect(0, 0, 1920, 1080), currentWs |-> 1,
     m_animationActive |-> FALSE, effect |-> FALSE,
     workspaceIndex |-> [v \in Views |-> NoWorkspace],
     applied |-> [v \in Views |-> NotApplied],
     opt_duration |-> opt.duration, opt_force_split |-> opt.force_split,
     opt_smart_split |-> opt.smart_split, opt_popin_percent |-> opt.popin_percent,
     m_animConfigIn |-> [popinPercent |-> opt.popin_percent],
     m_cursorPos |-> [x |-> 0, y |-> 0]]

\* The options SpecPlugin runs under: animations of DurationMs, cursor-driven
\* force_split, smart_split off, popin_percent 0.8
PlainOptions ==
    [duration |-> DurationMs, force_split |-> 0, smart_split |-> FALSE, popin_percent |-> PopScale]

AnimatedTilePlugin == PluginWith(PlainOptions)

\* The one element of a singleton.  The handlers below hand every tree to
\* the tree's operations through a set of one, { f(T) : T \in {tree} }, so
\* that the tree is evaluated once however often f refers to it.
Only(S) == CHOOSE r \in S : TRUE

\* The windows of a tree, as a set
ViewSet(T) == {getViews(T)[i] : i \in DOMAIN getViews(T)}

getTreeForWorkspace(P, wsIndex) ==
    IF wsIndex \in DOMAIN P.m_trees THEN P
    ELSE LET made == setBounds(setConfig(TileTree, P.opt_duration, DefaultGapIn, DefaultGapOut, FALSE,
                                         [num |-> 1, den |-> 1], P.opt_force_split, P.opt_smart_split),
                               P.m_workspaceBounds)
         IN [P EXCEPT !.m_trees = [w \in DOMAIN P.m_trees \cup {wsIndex} |->
                                      IF w = wsIndex THEN made ELSE P.m_trees[w]]]

\* A startAnimationLoop that sets the flag and forgets the hook
startAnimationLoop_NoHook(P) ==
    IF ~P.m_animationActive THEN [P EXCEPT !.m_animationActive = TRUE] ELSE P

startAnimationLoop(P) ==
    IF ~P.m_animationActive THEN [P EXCEPT !.m_animationActive = TRUE, !.effect = TRUE] ELSE P

stopAnimationLoop(P) ==
    IF P.m_animationActive THEN [P EXCEPT !.m_animationActive = FALSE, !.effect = FALSE] ELSE P

\* A tileView that adds the window to every workspace's tree
tileView_EveryTree(P, view, wsIndex, clk) ==
    LET P1 == getTreeForWorkspace(P, wsIndex)
        P2 == [P1 EXCEPT !.m_trees = [w \in DOMAIN P1.m_trees |->
                                         Only({addView(T, view, TRUE, clk) : T \in {P1.m_trees[w]}})],
                         !.workspaceIndex[view] = wsIndex]
    IN startAnimationLoop(P2)

tileView(P, view, wsIndex, clk) ==
    LET P1 == getTreeForWorkspace(P, wsIndex)
        P2 == [P1 EXCEPT !.m_trees[wsIndex] = Only({addView(T, view, TRUE, clk) : T \in {P1.m_trees[wsIndex]}}),
                         !.workspaceIndex[view] = wsIndex]
    IN startAnimationLoop(P2)

untileView(P, view, wsIndex, clk) ==
    LET P1 == [P EXCEPT !.m_trees[wsIndex] = Only({removeView(T, view, TRUE, clk) : T \in {P.m_trees[wsIndex]}}),
                        !.workspaceIndex[view] = NoWorkspace]
    IN IF ~isEmpty(P1.m_trees[wsIndex]) THEN startAnimationLoop(P1) ELSE P1

\* set_geometry(*goalGeo) in applyAnimatedGeometry, with its guards
applyAnimatedGeometry(P, view, T) ==
    LET currentGeo == getViewGeometry(T, view)
        goalGeo == getViewGoalGeometry(T, view)
    IN IF currentGeo = <<>> \/ goalGeo = <<>> THEN P
       ELSE IF goalGeo[1].width <= 0 \/ goalGeo[1].height <= 0 THEN P
       ELSE [P EXCEPT !.applied[view] = goalGeo]

\* set_geometry(*goalGeo) in finalizeViewGeometry and in on_workspace_changed
finalizeViewGeometry(P, view, T) ==
    LET goalGeo == getViewGoalGeometry(T, view)
    IN IF goalGeo = <<>> THEN P ELSE [P EXCEPT !.applied[view] = goalGeo]

\* for (auto& view : tree->getViews()) f(view, tree): each call touches
\* what is recorded for its own view only
ForEachView(P, T, finalize) ==
    LET views == ViewSet(T)
    IN [P EXCEPT !.applied = [v \in Views |->
          IF v \notin views THEN P.applied[v]
          ELSE IF finalize THEN finalizeViewGeometry(P, v, T).applied[v]
          ELSE applyAnimatedGeometry(P, v, T).applied[v]]]

\* A tickAnimations that advances the tree of the current workspace alone
Plugin_tickAnimations_ShownTreeOnly(P, clkOf) ==
    LET shown == DOMAIN P.m_trees \cap {P.currentWs}
        stillAnimating == \E w \in shown : tickAnimationsResult(P.m_trees[w], clkOf[w])
        ticked == [w \in DOMAIN P.m_trees |->
                      IF w \in shown THEN tickAnimations(P.m_trees[w], clkOf[w]) ELSE P.m_trees[w]]
        P1 == [P EXCEPT !.m_trees = ticked]
        P2 == [P1 EXCEPT !.applied = [v \in Views |->
                  IF \E w \in shown : v \in ViewSet(ticked[w])
                  THEN IF stillAnimating
                       THEN applyAnimatedGeometry(P1, v, ticked[P.currentWs]).applied[v]
                       ELSE getViewGoalGeometry(ticked[P.currentWs], v)
                  ELSE P1.applied[v]]]
    IN IF ~stillAnimating THEN stopAnimationLoop(P2) ELSE P2

\* A tickAnimations that applies the animated geometry to the views of
\* every workspace's tree
Plugin_tickAnimations_EveryView(P, clkOf) ==
    LET stillAnimating == \E w \in DOMAIN P.m_trees : tickAnimationsResult(P.m_trees[w], clkOf[w])
        ticked == [w \in DOMAIN P.m_trees |-> tickAnimations(P.m_trees[w], clkOf[w])]
        P1 == [P EXCEPT !.m_trees = ticked]
        P2 == [P1 EXCEPT !.applied = [v \in Views |->
                  IF \E w \in DOMAIN ticked : v \in ViewSet(ticked[w])
                  THEN applyAnimatedGeometry(P1, v, ticked[CHOOSE w \in DOMAIN ticked : v \in ViewSet(ticked[w])]).applied[v]
                  ELSE P1.applied[v]]]
    IN IF ~stillAnimating THEN stopAnimationLoop(P2) ELSE P2

\* AnimatedTilePlugin::tickAnimations; clkOf gives the clock of each tree's pass
Plugin_tickAnimations(P, clkOf) ==
    LET stillAnimating == \E w \in DOMAIN P.m_trees : tickAnimationsResult(P.m_trees[w], clkOf[w])
        ticked == [w \in DOMAIN P.m_trees |-> tickAnimations(P.m_trees[w], clkOf[w])]
        here == P.currentWs \in DOMAIN P.m_trees
    IN Only({LET P1 == [P EXCEPT !.m_trees = trees]
                 P2 == IF here THEN ForEachView(P1, trees[P.currentWs], FALSE) ELSE P1
             IN IF ~stillAnimating
                THEN stopAnimationLoop(IF here THEN ForEachView(P2, trees[P.currentWs], TRUE) ELSE P2)
                ELSE P2 : trees \in {ticked}})

\* ViewAnimData::transformer of a view that has none: nullptr
NoTransformer == <<>>
\* A view_2d_transformer_t as constructed and as the plugin resets it.  The
\* translations are floats, alpha is in thousandths, scale_x and scale_y are
\* kept as the two factors of scaleX *= animScale: the clamped float ratio
\* and the animated scale in thousandths
IdentityTransformer ==
    [translation_x |-> [n |-> 0, k |-> 0], translation_y |-> [n |-> 0, k |-> 0],
     scale_x |-> [ratio |-> [n |-> 1, k |-> 0], anim |-> FloatOne],
     scale_y |-> [ratio |-> [n |-> 1, k |-> 0], anim |-> FloatOne],
     alpha |-> FloatOne]

\* X maps each view to its transformer
ensureTransformer(X, view) ==
    [X EXCEPT ![view] = IF @ = NoTransformer THEN IdentityTransformer ELSE @]

removeTransformer(X, view) == [X EXCEPT ![view] = NoTransformer]

\* std::clamp(static_cast<float>(current) / goal, 0.1f, 10.0f), for goal > 0
ClampedRatio(current, goal) ==
    IF 10 * current <= goal THEN F32Div(1, 10)
    ELSE IF current >= 10 * goal THEN [n |-> 10, k |-> 0]
    ELSE F32Div(current, goal)

\* currentCenter - goalCenter, the centres being x + width / 2.0f
CentreOffset(currentX, currentW, goalX, goalW) ==
    LET twice == (2 * currentX + currentW) - (2 * goalX + goalW)
    IN IF twice % 2 = 0 THEN [n |-> twice \div 2, k |-> 0] ELSE [n |-> twice, k |-> 1]

\* What applyAnimatedGeometry leaves in the transformer of view
applyTransformer(X, view, T) ==
    LET currentGeo == getViewGeometry(T, view)
        goalGeo == getViewGoalGeometry(T, view)
        sa == getViewScaleAlpha(T, view)
    IN IF currentGeo = <<>> \/ goalGeo = <<>> THEN X
       ELSE IF goalGeo[1].width <= 0 \/ goalGeo[1].height <= 0 THEN X
       ELSE IF X[view] = NoTransformer THEN X
       ELSE LET c == currentGeo[1]
                g == goalGeo[1]
            IN [X EXCEPT ![view] =
                   [translation_x |-> CentreOffset(c.x, c.width, g.x, g.width),
                    translation_y |-> CentreOffset(c.y, c.height, g.y, g.height),
                    scale_x |-> [ratio |-> ClampedRatio(c.width, g.width), anim |-> sa[1]],
                    scale_y |-> [ratio |-> ClampedRatio(c.height, g.height), anim |-> sa[1]],
                    alpha |-> sa[2]]]

\* A reset that leaves the transformer as the last tick set it
resetTransformer_Keep(X, view, T) == X

\* What finalizeViewGeometry, and the same statements of
\* on_workspace_changed, leave in the transformer of view
resetTransformer(X, view, T) ==
    IF getViewGoalGeometry(T, view) = <<>> \/ X[view] = NoTransformer THEN X
    ELSE [X EXCEPT ![view] = IdentityTransformer]

\* The transformers after AnimatedTilePlugin::tickAnimations on plugin P
Transformers_tick(X, P, clkOf) ==
    LET stillAnimating == \E w \in DOMAIN P.m_trees : tickAnimationsResult(P.m_trees[w], clkOf[w])
    IN IF P.currentWs \notin DOMAIN P.m_trees THEN X
       ELSE Only({[v \in Views |->
                     IF v \notin ViewSet(T) THEN X[v]
                     ELSE IF stillAnimating THEN applyTransformer(X, v, T)[v]
                     ELSE resetTransformer(applyTransformer(X, v, T), v, T)[v]] :
                  T \in {tickAnimations(P.m_trees[P.currentWs], clkOf[P.currentWs])}})

\* The transformers after on_workspace_changed, the output showing ws
Transformers_switch(X, P, ws) ==
    IF ws \notin DOMAIN P.m_trees THEN X
    ELSE [v \in Views |->
             IF v \in ViewSet(P.m_trees[ws]) THEN resetTransformer(X, v, P.m_trees[ws])[v] ELSE X[v]]

\* updateCursorPosition; cursor is what get_cursor_position() reports
updateCursorPosition(P, cursor) ==
    IF P.currentWs \in DOMAIN P.m_trees
    THEN [P EXCEPT !.m_cursorPos = cursor,
                   !.m_trees[P.currentWs] = setCursorPosition(@, cursor)]
    ELSE [P EXCEPT !.m_cursorPos = cursor]

\* on_view_mapped that leaves the tracked focus as it was before the map
on_view_mapped_KeepFocus(P, view, cursor, clk) ==
    LET P1 == updateCursorPosition(P, cursor)
        P2 == getTreeForWorkspace(P1, P.currentWs)
    IN tileView(P2, view, P.currentWs, clk)

on_view_mapped(P, view, cursor, clk) ==
    LET P1 == updateCursorPosition(P, cursor)
        P2 == getTreeForWorkspace(P1, P.currentWs)
        P3 == [P2 EXCEPT !.m_trees[P.currentWs] = setFocusedView(@, view)]
    IN tileView(P3, view, P.currentWs, clk)

\* on_view_unmapped that looks for the window on the shown workspace only
on_view_unmapped_CurrentOnly(P, view, clk) ==
    IF P.currentWs \in DOMAIN P.m_trees /\ hasView(P.m_trees[P.currentWs], view)
    THEN untileView(P, view, P.currentWs, clk)
    ELSE P

on_view_unmapped(P, view, clk) ==
    LET ws == P.workspaceIndex[view]
    IN IF ws >= 0 /\ ws \in DOMAIN P.m_trees /\ hasView(P.m_trees[ws], view)
       THEN untileView(P, view, ws, clk)
       ELSE IF \E w \in DOMAIN P.m_trees : hasView(P.m_trees[w], view)
       THEN untileView(P, view, CHOOSE w \in DOMAIN P.m_trees : hasView(P.m_trees[w], view), clk)
       ELSE P

on_workarea_changed(P, workarea, clkOf) ==
    LET P1 == [P EXCEPT !.m_workspaceBounds = workarea,
                        !.m_trees = [w \in DOMAIN P.m_trees |->
                                        Only({recalculateLayout(T, TRUE, clkOf[w]) :
                                              T \in {setBounds(P.m_trees[w], workarea)}})]]
    IN startAnimationLoop(P1)

\* on_workspace_changed, once the output shows workspace ws
on_workspace_changed(P, ws) ==
    LET P1 == [P EXCEPT !.currentWs = ws]
    IN IF ws \in DOMAIN P.m_trees THEN ForEachView(P1, P.m_trees[ws], TRUE) ELSE P1

\* ------------------------------------------------------------ the machine
VARIABLES
    tree,     \* the TileTree of one workspace
    now,      \* std::chrono::high_resolution_clock::now(), in ms
    tiled,    \* the windows handed to addView and not yet to removeView
    scalar,   \* one AnimatedVar<int> on its own
    plugin,   \* the AnimatedTilePlugin of one output, with what it has told the compositor
    transformer  \* the values of each view's ViewAnimData::transformer

vars == <<tree, now, tiled, scalar, plugin, transformer>>

\* What the operations of the tree leave alone
others == <<scalar, plugin, transformer>>

\* The option values a tree is configured with: every combination of
\* preserve_split, smart_split and force_split, and the width multiplier 1/2
\* with and without preserve_split
ConfigSet ==
    {[ps |-> ps, ss |-> ss, fs |-> fs, m |-> [num |-> 1, den |-> 1]] :
        ps \in BOOLEAN, ss \in BOOLEAN, fs \in ForceSplitSet}
    \cup {[ps |-> ps, ss |-> FALSE, fs |-> 0, m |-> [num |-> 1, den |-> 2]] : ps \in BOOLEAN}

\* A TileTree as getTreeForWorkspace sets it up: constructed, then setConfig
\* and setBounds
ConfiguredTree(durationMs, c, b) ==
    setBounds(setConfig(TileTree, durationMs, DefaultGapIn, DefaultGapOut, c.ps, c.m, c.fs, c.ss), b)

\* Spec: the tree manager with the animation duration 0 (every goal is
\* reached at once), under every configuration of ConfigSet
Init ==
    /\ tree \in {ConfiguredTree(0, c, Rect(0, 0, 1920, 1080)) : c \in ConfigSet}
    /\ now = 0
    /\ tiled = {}
    /\ scalar = AnimatedVar(0)
    /\ plugin = AnimatedTilePlugin
    /\ transformer = [v \in Views |-> NoTransformer]

\* on_workarea_changed, for one tree: setBounds, then recalculateLayout(true)
WorkareaChanged(b) ==
    /\ tree' = recalculateLayout(setBounds(tree, b), TRUE, SteadyClock(now))
    /\ UNCHANGED <<now, tiled, others>>

SetFocusedView(v) ==
    /\ tree' = setFocusedView(tree, v)
    /\ UNCHANGED <<now, tiled, others>>

SetCursorPosition(c) ==
    /\ tree' = setCursorPosition(tree, c)
    /\ UNCHANGED <<now, tiled, others>>

\* A window is mapped once: addView is handed a window the tree does not hold
AddView(v) ==
    /\ v \notin tiled
    /\ tree' = addView(tree, v, TRUE, SteadyClock(now))
    /\ tiled' = tiled \cup {v}
    /\ UNCHANGED <<now, others>>

RemoveView(v) ==
    /\ tree' = removeView(tree, v, TRUE, SteadyClock(now))
    /\ tiled' = tiled \ {v}
    /\ UNCHANGED <<now, others>>

RecalculateLayout ==
    /\ tree' = recalculateLayout(tree, TRUE, SteadyClock(now))
    /\ UNCHANGED <<now, tiled, others>>

HandleLayoutMessage(msg, v, geo) ==
    /\ tree' = handleLayoutMessage(tree, msg, v, geo, SteadyClock(now))
    /\ UNCHANGED <<now, tiled, others>>

TickAnimations ==
    /\ tree' = tickAnimations(tree, SteadyClock(now))
    /\ UNCHANGED <<now, tiled, others>>

\* Time passes between two calls
Elapse ==
    /\ now < MaxTime
    /\ now' = now + 1
    /\ UNCHANGED <<tree, tiled, others>>

Next ==
    \/ \E b \in BoundsSet : WorkareaChanged(b)
    \/ \E v \in Views \cup {NoView} : SetFocusedView(v)
    \/ \E c \in CursorSet : SetCursorPosition(c)
    \/ \E v \in Views : AddView(v)
    \/ \E v \in Views : RemoveView(v)
    \/ RecalculateLayout
    \/ \E msg \in {"togglesplit", "swapnext", "unknown"}, v \in Views \cup {NoView} :
          HandleLayoutMessage(msg, v, Rect(0, 0, 640, 480))
    \/ TickAnimations

Spec == Init /\ [][Next]_vars

\* SpecAnim: the tree manager with running animations and a passing clock,
\* under the default options, holding at most MaxAnimViews windows
MaxAnimViews == 2

InitAnim ==
    /\ tree = ConfiguredTree(DurationMs, [ps |-> FALSE, ss |-> FALSE, fs |-> 0, m |-> [num |-> 1, den |-> 1]],
                             Rect(0, 0, 1920, 1080))
    /\ now = 0
    /\ tiled = {}
    /\ scalar = AnimatedVar(0)
    /\ plugin = AnimatedTilePlugin
    /\ transformer = [v \in Views |-> NoTransformer]

AddViewAnim(v) ==
    /\ Cardinality(tiled) < MaxAnimViews
    /\ AddView(v)

NextAnim ==
    \/ \E v \in Views \cup {NoView} : SetFocusedView(v)
    \/ \E v \in Views : AddViewAnim(v)
    \/ \E v \in Views : RemoveView(v)
    \/ RecalculateLayout
    \/ \E msg \in {"togglesplit", "swapnext", "swapprev", "unknown"}, v \in Views \cup {NoView} :
          HandleLayoutMessage(msg, v, Rect(0, 0, 640, 480))
    \/ TickAnimations
    \/ Elapse

SpecAnim == InitAnim /\ [][NextAnim]_vars

\* SpecClock: SpecAnim with the clock as the code reads it.  Every set and
\* every tick of a scalar calls high_resolution_clock::now() itself, so the
\* clock may move on between two scalars of one pass: a pass reads t up to
\* some scalar of BumpPositions and t + 1 from there on (NoBump: the clock
\* stands still for the whole pass).
BumpPositions == {1, 4, 8, NoBump}

ClockOf(bump) == [t |-> now, bump |-> bump]

\* What the clock shows once the pass is over
ClockAfter(clk) == IF clk.bump < NoBump THEN clk.t + 1 ELSE clk.t

ClockMoves(bump) ==
    /\ bump < NoBump => now < MaxTime
    /\ now' = ClockAfter(ClockOf(bump))

AddViewClock(v, bump) ==
    /\ Cardinality(tiled) < MaxAnimViews
    /\ v \notin tiled
    /\ tree' = addView(tree, v, TRUE, ClockOf(bump))
    /\ tiled' = tiled \cup {v}
    /\ ClockMoves(bump)
    /\ UNCHANGED others

RecalculateLayoutClock(bump) ==
    /\ tree' = recalculateLayout(tree, TRUE, ClockOf(bump))
    /\ ClockMoves(bump)
    /\ UNCHANGED <<tiled, others>>

TickAnimationsClock(bump) ==
    /\ tree' = tickAnimations(tree, ClockOf(bump))
    /\ ClockMoves(bump)
    /\ UNCHANGED <<tiled, others>>

NextClock ==
    \/ \E v \in Views, bump \in BumpPositions : AddViewClock(v, bump)
    \/ \E v \in Views : RemoveView(v)
    \/ \E bump \in BumpPositions : RecalculateLayoutClock(bump)
    \/ \E bump \in BumpPositions : TickAnimationsClock(bump)
    \/ Elapse

SpecClock == InitAnim /\ [][NextClock]_vars

\* SpecPlugin: the plugin of one output with two workspaces, driven by the
\* compositor's signals and, while the hook is registered, by its frames.
\* At most MaxAnimViews windows are mapped at a time, and the workarea only
\* ever shrinks, along PluginWorkareas.  During a frame the clock may move
\* once, inside the pass over the tree of workspace bumpWs.
PluginViews == 1..MaxAnimViews
PluginBumps == {4, NoBump}
PluginWorkareas == {Rect(0, 0, 1920, 1080), Rect(0, 0, 24, 23)}

PassClocks(bumpWs, bump) ==
    [w \in Workspaces |->
        IF bump = NoBump \/ w < bumpWs THEN SteadyClock(now)
        ELSE IF w = bumpWs THEN ClockOf(bump)
        ELSE SteadyClock(now + 1)]

InitPlugin ==
    /\ tree = TileTree
    /\ now = 0
    /\ tiled = {}
    /\ scalar = AnimatedVar(0)
    /\ plugin = AnimatedTilePlugin
    /\ transformer = [v \in Views |-> NoTransformer]

ViewMapped(v) ==
    /\ v \notin tiled
    /\ plugin' = on_view_mapped(plugin, v, [x |-> 0, y |-> 0], SteadyClock(now))
    /\ tiled' = tiled \cup {v}
    /\ UNCHANGED <<tree, now, scalar, transformer>>

ViewUnmapped(v) ==
    /\ v \in tiled
    /\ plugin' = on_view_unmapped(plugin, v, SteadyClock(now))
    /\ tiled' = tiled \ {v}
    /\ UNCHANGED <<tree, now, scalar, transformer>>

WorkareaShrinks(workarea) ==
    /\ workarea.width < plugin.m_workspaceBounds.width
    /\ plugin' = on_workarea_changed(plugin, workarea, PassClocks(1, NoBump))
    /\ UNCHANGED <<tree, now, tiled, scalar, transformer>>

WorkspaceChanged(ws) ==
    /\ ws # plugin.currentWs
    /\ plugin' = on_workspace_changed(plugin, ws)
    /\ UNCHANGED <<tree, now, tiled, scalar, transformer>>

\* The output renders a frame: the hook runs if it is registered
Frame(bumpWs, bump) ==
    /\ plugin.effect
    /\ plugin' = Plugin_tickAnimations(plugin, PassClocks(bumpWs, bump))
    /\ ClockMoves(bump)
    /\ UNCHANGED <<tree, tiled, scalar, transformer>>

NextPlugin ==
    \/ \E v \in PluginViews : ViewMapped(v)
    \/ \E v \in PluginViews : ViewUnmapped(v)
    \/ \E workarea \in PluginWorkareas : WorkareaShrinks(workarea)
    \/ \E ws \in Workspaces : WorkspaceChanged(ws)
    \/ \E bumpWs \in Workspaces, bump \in PluginBumps : Frame(bumpWs, bump)
    \/ Elapse

SpecPlugin == InitPlugin /\ [][NextPlugin]_vars

\* SpecFrame: the plugin of SpecPlugin with a steady clock, together with the
\* transformer of every view
MapFrame(v) ==
    /\ v \notin tiled
    /\ plugin' = on_view_mapped(plugin, v, [x |-> 0, y |-> 0], SteadyClock(now))
    /\ transformer' = ensureTransformer(transformer, v)
    /\ tiled' = tiled \cup {v}
    /\ UNCHANGED <<tree, now, scalar>>

UnmapFrame(v) ==
    /\ v \in tiled
    /\ plugin' = on_view_unmapped(plugin, v, SteadyClock(now))
    /\ transformer' = removeTransformer(transformer, v)
    /\ tiled' = tiled \ {v}
    /\ UNCHANGED <<tree, now, scalar>>

ShrinkFrame(workarea) ==
    /\ workarea.width < plugin.m_workspaceBounds.width
    /\ plugin' = on_workarea_changed(plugin, workarea, PassClocks(1, NoBump))
    /\ UNCHANGED <<tree, now, tiled, scalar, transformer>>

SwitchFrame(ws) ==
    /\ ws # plugin.currentWs
    /\ plugin' = on_workspace_changed(plugin, ws)
    /\ transformer' = Transformers_switch(transformer, plugin, ws)
    /\ UNCHANGED <<tree, now, tiled, scalar>>

\* The output renders a frame: the hook runs if it is registered
TickFrame ==
    /\ plugin.effect
    /\ plugin' = Plugin_tickAnimations(plugin, PassClocks(1, NoBump))
    /\ transformer' = Transformers_tick(transformer, plugin, PassClocks(1, NoBump))
    /\ UNCHANGED <<tree, now, tiled, scalar>>

NextFrame ==
    \/ \E v \in PluginViews : MapFrame(v)
    \/ \E v \in PluginViews : UnmapFrame(v)
    \/ \E workarea \in PluginWorkareas : ShrinkFrame(workarea)
    \/ \E ws \in Workspaces : SwitchFrame(ws)
    \/ TickFrame
    \/ Elapse

SpecFrame == InitPlugin /\ [][NextFrame]_vars

\* SpecLive: the plugin of SpecPlugin under the conditions its frames and
\* its clock meet.  startAnimationLoop and a tick that is still animating
\* call schedule_redraw, so while the hook is registered the output keeps
\* rendering frames (weak fairness of FrameLive); the clock keeps advancing
\* (weak fairness of ElapseLive).  Windows are mapped and unmapped and the
\* workarea changes up to the instant LastEvent; workspace switches go on.
LastEvent == 1
\* By this instant every animation begun up to LastEvent has run out
LastInstant == LastEvent + DurationMs

MapLive(v) ==
    /\ now <= LastEvent
    /\ ViewMapped(v)

UnmapLive(v) ==
    /\ now <= LastEvent
    /\ ViewUnmapped(v)

ShrinkLive(workarea) ==
    /\ now <= LastEvent
    /\ WorkareaShrinks(workarea)

FrameLive ==
    /\ plugin.effect
    /\ plugin' = Plugin_tickAnimations(plugin, PassClocks(1, NoBump))
    /\ UNCHANGED <<tree, now, tiled, scalar, transformer>>

ElapseLive ==
    /\ now < LastInstant
    /\ now' = now + 1
    /\ UNCHANGED <<tree, tiled, others>>

NextLive ==
    \/ \E v \in PluginViews : MapLive(v)
    \/ \E v \in PluginViews : UnmapLive(v)
    \/ \E workarea \in PluginWorkareas : ShrinkLive(workarea)
    \/ \E ws \in Workspaces : WorkspaceChanged(ws)
    \/ FrameLive
    \/ ElapseLive

\* While the hook stays registered the output goes on rendering frames
FramesKeepComing == []<>(~plugin.effect) \/ []<><<FrameLive>>_vars

SpecLive == InitPlugin /\ [][NextLive]_vars /\ FramesKeepComing /\ WF_vars(ElapseLive)

\* SpecOptions: the plugin under every combination of force_split,
\* smart_split and two values of popin_percent, with at most MaxAnimViews
\* windows mapped at either cursor position, unmapped, and the workspace
\* switched.  The clock
\* stands at 0: every animation is at its start.
PopinSet == {PopScale, 500}
OptionSet ==
    {[duration |-> DurationMs, force_split |-> fs, smart_split |-> ss, popin_percent |-> pop] :
        fs \in ForceSplitSet, ss \in BOOLEAN, pop \in PopinSet}

InitOptions ==
    /\ tree = TileTree
    /\ now = 0
    /\ tiled = {}
    /\ scalar = AnimatedVar(0)
    /\ plugin \in {PluginWith(opt) : opt \in OptionSet}
    /\ transformer = [v \in Views |-> NoTransformer]

ViewMappedAt(v, cursor) ==
    /\ v \notin tiled
    /\ plugin' = on_view_mapped(plugin, v, cursor, SteadyClock(now))
    /\ tiled' = tiled \cup {v}
    /\ UNCHANGED <<tree, now, scalar, transformer>>

FrameAtStart ==
    /\ plugin.effect
    /\ plugin' = Plugin_tickAnimations(plugin, PassClocks(1, NoBump))
    /\ UNCHANGED <<tree, now, tiled, scalar, transformer>>

NextOptions ==
    \/ \E v \in PluginViews, cursor \in CursorSet : ViewMappedAt(v, cursor)
    \/ \E v \in PluginViews : ViewUnmapped(v)
    \/ \E ws \in Workspaces : WorkspaceChanged(ws)
    \/ FrameAtStart

SpecOptions == InitOptions /\ [][NextOptions]_vars

\* SpecScalar: one AnimatedVar<int> with no curve, constructed at a value
\* of ScalarValues with a duration of ScalarDurations, given goals while it
\* is idle and ticked as time passes in steps of ElapseSteps
MaxScalarTime == 320
ScalarValues == {-3, 0, 10, 100}
ScalarDurations == {3, 300}
ElapseSteps == {50, 109}

InitScalar ==
    /\ tree = TileTree
    /\ tiled = {}
    /\ now = 0
    /\ scalar \in {AVsetConfig(AnimatedVar(s), d) : s \in ScalarValues, d \in ScalarDurations}
    /\ plugin = AnimatedTilePlugin
    /\ transformer = [v \in Views |-> NoTransformer]

ScalarSet(goal) ==
    /\ ~scalar.m_animating
    /\ scalar' = AVset(scalar, goal, TRUE, now)
    /\ UNCHANGED <<tree, now, tiled, plugin, transformer>>

ScalarTick ==
    /\ scalar' = AVtick(scalar, now)
    /\ UNCHANGED <<tree, now, tiled, plugin, transformer>>

ScalarElapse(step) ==
    /\ now + step <= MaxScalarTime
    /\ now' = now + step
    /\ UNCHANGED <<tree, tiled, scalar, plugin, transformer>>

NextScalar ==
    \/ \E goal \in ScalarValues : ScalarSet(goal)
    \/ ScalarTick
    \/ \E step \in ElapseSteps : ScalarElapse(step)

SpecScalar == InitScalar /\ [][NextScalar]_vars

\* ------------------------------------------------------------- properties
\* The nodes reachable from node n by child references
RECURSIVE Reachable(_, _)
Reachable(h, n) ==
    IF n = Null \/ ~IsLive(h, n) THEN {}
    ELSE {n} \cup Reachable(h, h[n].m_children[0]) \cup Reachable(h, h[n].m_children[1])

Leaves(h) == {n \in LiveNodes(h) : h[n].m_isLeaf}
Splits(h) == {n \in LiveNodes(h) : ~h[n].m_isLeaf}
GoalOf(h, n) == AGgoal(h[n].m_geometry)

\* C1: after any sequence of insert, remove and message operations every
\* node of the tree is either a leaf holding exactly one window handle and
\* no children, or a split with exactly two non-null children and no handle.
C1_StrictlyBinary ==
    \A n \in LiveNodes(tree.heap) :
        LET node == tree.heap[n]
        IN IF node.m_isLeaf
           THEN /\ node.m_view \in Views
                /\ node.m_children[0] = Null
                /\ node.m_children[1] = Null
           ELSE /\ node.m_view = NoView
                /\ node.m_children[0] \in LiveNodes(tree.heap)
                /\ node.m_children[1] \in LiveNodes(tree.heap)
                /\ node.m_children[0] # node.m_children[1]

\* C1's case: inserts, a remove that promoted the second split to root (the
\* first split is gone) and a toggle-split (the root is locked) have acted
C1_Witness ==
    /\ tree.m_root = MaxViews + 3
    /\ tree.heap[tree.m_root].m_splitLocked
    /\ Cardinality(Leaves(tree.heap)) = 2

\* C2: every non-root node is the child of its parent at the slot
\* childIndex reports, every child of a split names that split as its
\* parent, and the root has no parent.
C2_ParentChildConsistent ==
    LET h == tree.heap
    IN /\ \A n \in LiveNodes(h) :
            /\ n # tree.m_root =>
                  /\ parent(h, n) # Null
                  /\ childIndex(h, n) \in {0, 1}
                  /\ child(h, parent(h, n), childIndex(h, n)) = n
            /\ \A i \in {0, 1} :
                  h[n].m_children[i] # Null => h[h[n].m_children[i]].m_parent = n
       /\ tree.m_root # Null => /\ IsLive(h, tree.m_root)
                                /\ parent(h, tree.m_root) = Null
                                /\ h[tree.m_root].m_parent = Null

\* C2's case: a tree two splits deep in which a leaf has a grandparent
C2_Witness ==
    \E n \in Leaves(tree.heap) :
        /\ parent(tree.heap, n) # Null
        /\ parent(tree.heap, parent(tree.heap, n)) = tree.m_root
        /\ childIndex(tree.heap, parent(tree.heap, n)) = 0

\* C3: once every inserted window has been removed again, in any order, the
\* tree has no root, reports itself empty, lists no window and holds no
\* node; and removing the last remaining window yields exactly that.
C3_RemoveAllEmpties ==
    /\ tiled = {} =>
          /\ tree.m_root = Null
          /\ isEmpty(tree)
          /\ getViews(tree) = <<>>
          /\ LiveNodes(tree.heap) = {}
    /\ \A v \in Views :
          tiled = {v} =>
             LET T2 == removeView(tree, v, TRUE, SteadyClock(now))
             IN /\ T2.m_root = Null
                /\ isEmpty(T2)
                /\ getViews(T2) = <<>>
                /\ LiveNodes(T2.heap) = {}
                /\ Reachable(T2.heap, T2.m_root) = {}

\* C3's case: one window is left in a tree that holds its leaf, and removing
\* it leaves no node
C3_Witness ==
    \E v \in Views :
        /\ tiled = {v}
        /\ tree.m_root # Null
        /\ getViews(tree) = <<v>>
        /\ tree.m_focusedView # v
        /\ LiveNodes(removeView(tree, v, TRUE, SteadyClock(now)).heap) = {}

\* The goal rectangles of the children of split s tile the goal rectangle
\* of s, with gap gapIn between them
TilesGoal(h, s, gapIn) ==
    LET G == GoalOf(h, s)
        G0 == GoalOf(h, h[s].m_children[0])
        G1 == GoalOf(h, h[s].m_children[1])
    IN IF h[s].m_splitDir = HORIZONTAL
       THEN /\ G0.x = G.x /\ G0.y = G.y /\ G1.y = G.y
            /\ G0.height = G.height /\ G1.height = G.height
            /\ G1.x = G.x + G0.width + gapIn
            /\ G0.width + gapIn + G1.width = G.width
       ELSE /\ G0.x = G.x /\ G0.y = G.y /\ G1.x = G.x
            /\ G0.width = G.width /\ G1.width = G.width
            /\ G1.y = G.y + G0.height + gapIn
            /\ G0.height + gapIn + G1.height = G.height

\* The tree holds two windows under a horizontal root split
TwoSideBySide(T) ==
    /\ T.m_root # Null
    /\ ~T.heap[T.m_root].m_isLeaf
    /\ T.heap[T.m_root].m_splitDir = HORIZONTAL
    /\ Cardinality(LiveNodes(T.heap)) = 3

\* C4: after any layout recalculation the goal rectangles of the two
\* children of every split tile the split's goal rectangle: same origin for
\* child 0, full extent across the split axis for both, child 1 starting at
\* child 0's extent plus gap_in, and the two extents plus gap_in adding up
\* to the split's extent.  With workarea 1920x1080, gap_in 5 and gap_out 10
\* the two goal widths of a side-by-side pair plus gap_in are 1900.
C4_ChildrenTileSplit ==
    /\ \A s \in Splits(tree.heap) : TilesGoal(tree.heap, s, tree.m_gapIn)
    /\ (/\ TwoSideBySide(tree)
        /\ tree.m_bounds = Rect(0, 0, 1920, 1080)
        /\ tree.m_gapIn = 5 /\ tree.m_gapOut = 10)
       => LET r == tree.heap[tree.m_root]
          IN GoalOf(tree.heap, r.m_children[0]).width + 5
                + GoalOf(tree.heap, r.m_children[1]).width = 1900

\* C4's case: the 1920x1080 example as a side-by-side pair of unequal
\* widths 947 and 948
C4_Witness ==
    /\ TwoSideBySide(tree)
    /\ tree.m_bounds = Rect(0, 0, 1920, 1080)
    /\ GoalOf(tree.heap, tree.heap[tree.m_root].m_children[0]).width = 947
    /\ GoalOf(tree.heap, tree.heap[tree.m_root].m_children[1]).width = 948
    /\ GoalOf(tree.heap, tree.heap[tree.m_root].m_children[1]).x = 962

\* The leaf the spec names as the one an insert splits: the focused
\* window's leaf when that window is in the tree, and else the leaf reached
\* from the root by always descending into child 1
RECURSIVE Descend1(_, _)
Descend1(h, n) == IF h[n].m_isLeaf THEN n ELSE Descend1(h, h[n].m_children[1])

LeafOfView(h, v) == {n \in Leaves(h) : h[n].m_view = v}

SplitTargetOf(T) ==
    IF T.m_focusedView # NoView /\ LeafOfView(T.heap, T.m_focusedView) # {}
    THEN CHOOSE n \in LeafOfView(T.heap, T.m_focusedView) : TRUE
    ELSE Descend1(T.heap, T.m_root)

\* Node n has in T2 the kind, window, parent and children it has in T
SameLinks(T, T2, n) ==
    /\ IsLive(T2.heap, n)
    /\ T2.heap[n].m_isLeaf = T.heap[n].m_isLeaf
    /\ T2.heap[n].m_view = T.heap[n].m_view
    /\ T2.heap[n].m_parent = T.heap[n].m_parent
    /\ T2.heap[n].m_children = T.heap[n].m_children

\* T2 is T with leaf target replaced, in its slot, by a new split over
\* target and a new leaf for window v, and nothing else relinked
InsertedInPlace(T, T2, v, target) ==
    LET h == T.heap
        h2 == T2.heap
        new == LiveNodes(h2) \ LiveNodes(h)
        p == parent(h, target)
        idx == childIndex(h, target)
    IN /\ LiveNodes(h) \subseteq LiveNodes(h2)
       /\ Cardinality(new) = 2
       /\ \E s \in new, l \in new :
             /\ s # l
             /\ ~h2[s].m_isLeaf /\ h2[s].m_view = NoView
             /\ h2[l].m_isLeaf /\ h2[l].m_view = v
             /\ h2[l].m_children = (0 :> Null @@ 1 :> Null)
             /\ {h2[s].m_children[0], h2[s].m_children[1]} = {target, l}
             /\ h2[target].m_parent = s
             /\ h2[l].m_parent = s
             /\ IF p = Null
                THEN T2.m_root = s /\ h2[s].m_parent = Null
                ELSE /\ T2.m_root = T.m_root
                     /\ h2[s].m_parent = p
                     /\ h2[p].m_children[idx] = s
                     /\ h2[p].m_children[1 - idx] = h[p].m_children[1 - idx]
                     /\ h2[p].m_parent = h[p].m_parent
                     /\ h2[p].m_isLeaf = h[p].m_isLeaf
       /\ h2[target].m_isLeaf /\ h2[target].m_view = h[target].m_view
       /\ h2[target].m_children = h[target].m_children
       /\ \A n \in LiveNodes(h) \ {target, p} : SameLinks(T, T2, n)

\* C5: inserting a window into a tree that holds two or more windows
\* replaces, in place, the focused window's leaf (or, when the focused
\* window is not in the tree, the leaf reached by always descending into
\* child 1) by a new split whose children are that leaf and the new leaf;
\* no other node changes its parent, its slot or its children.
C5_InsertReplacesLeafInPlace ==
    \A v \in (Views \cup {ProbeView}) \ tiled :
        Cardinality(tiled) >= 2 =>
            InsertedInPlace(tree, addView(tree, v, TRUE, SteadyClock(now)), v, SplitTargetOf(tree))

\* C5's case: three windows, the focused one in a leaf below a non-root
\* split and not the last leaf, and a fourth window inserted there
C5_Witness ==
    /\ Cardinality(tiled) = 3
    /\ tree.m_focusedView \in tiled
    /\ SplitTargetOf(tree) # Descend1(tree.heap, tree.m_root)
    /\ parent(tree.heap, SplitTargetOf(tree)) # tree.m_root
    /\ InsertedInPlace(tree, addView(tree, ProbeView, TRUE, SteadyClock(now)), ProbeView,
                       SplitTargetOf(tree))

\* T2 is T without the leaf `node` and its parent: the sibling of `node` is
\* where the parent was, and nothing else is relinked
SiblingPromoted(T, T2, node) ==
    LET h == T.heap
        h2 == T2.heap
        p == parent(h, node)
        sib == h[p].m_children[1 - childIndex(h, node)]
        gp == parent(h, p)
        pIdx == childIndex(h, p)
    IN /\ LiveNodes(h2) = LiveNodes(h) \ {node, p}
       /\ IF gp = Null
          THEN /\ T2.m_root = sib
               /\ parent(h2, sib) = Null
          ELSE /\ T2.m_root = T.m_root
               /\ h2[sib].m_parent = gp
               /\ h2[gp].m_children[pIdx] = sib
               /\ h2[gp].m_children[1 - pIdx] = h[gp].m_children[1 - pIdx]
               /\ h2[gp].m_parent = h[gp].m_parent
               /\ h2[gp].m_isLeaf = h[gp].m_isLeaf
       /\ h2[sib].m_isLeaf = h[sib].m_isLeaf
       /\ h2[sib].m_view = h[sib].m_view
       /\ h2[sib].m_children = h[sib].m_children
       /\ \A n \in LiveNodes(h) \ {node, p, sib, gp} : SameLinks(T, T2, n)

\* The layout of T is the one a recalculation gives: the root's goal is the
\* workarea inset by gap_out and every split's children tile its goal
LayoutIsCurrent(T) ==
    /\ T.m_root # Null => GoalOf(T.heap, T.m_root) = effectiveBounds(T)
    /\ \A s \in Splits(T.heap) : TilesGoal(T.heap, s, T.m_gapIn)
    /\ recalculateLayout(T, TRUE, SteadyClock(now)) = T

\* C6: removing a window whose leaf has a parent discards the leaf and the
\* parent and promotes the sibling into the parent's place: the sibling is
\* the root when the parent was the root, and else sits in the grandparent's
\* slot the parent had; the rest of the tree is unchanged and the layout of
\* the surviving tree is recalculated.
C6_RemovePromotesSibling ==
    \A v \in tiled :
        \A node \in LeafOfView(tree.heap, v) :
            parent(tree.heap, node) # Null =>
                LET T2 == removeView(tree, v, TRUE, SteadyClock(now))
                IN /\ SiblingPromoted(tree, T2, node)
                   /\ LayoutIsCurrent(T2)

\* C6's case: the removed leaf's parent sits in slot 0 of the root and the
\* promoted sibling is itself a split
C6_Witness ==
    \E v \in tiled :
        \E node \in LeafOfView(tree.heap, v) :
            LET p == parent(tree.heap, node)
            IN /\ p # Null
               /\ p # tree.m_root
               /\ childIndex(tree.heap, p) = 0
               /\ SiblingPromoted(tree, removeView(tree, v, TRUE, SteadyClock(now)), node)

\* Removing window v, or sending any message that names v, leaves T as it is
RemoveAndMessagesAreNoOps(T, v, clk) ==
    /\ removeView(T, v, TRUE, clk) = T
    /\ removeView(T, v, FALSE, clk) = T
    /\ \A msg \in MsgSet, geo \in ViewGeometrySet :
          handleLayoutMessage(T, msg, v, geo, clk) = T

\* C7: removing a window that is not in the tree, sending a message that
\* names a window that is not in the tree, and every remove, message, tick
\* and recalculation on an empty tree change nothing; for a window that is
\* not in the tree contains reports false and the current-rectangle and
\* goal-rectangle queries report no value.
C7_NoOpsChangeNothing ==
    /\ \A v \in (Views \cup {ProbeView}) \ tiled :
          /\ RemoveAndMessagesAreNoOps(tree, v, SteadyClock(now))
          /\ ~hasView(tree, v)
          /\ getViewGeometry(tree, v) = <<>>
          /\ getViewGoalGeometry(tree, v) = <<>>
    /\ tiled = {} =>
          /\ \A v \in Views \cup {ProbeView, NoView} :
                RemoveAndMessagesAreNoOps(tree, v, SteadyClock(now))
          /\ tickAnimations(tree, SteadyClock(now)) = tree
          /\ ~tickAnimationsResult(tree, SteadyClock(now))
          /\ recalculateLayout(tree, TRUE, SteadyClock(now)) = tree
          /\ recalculateLayout(tree, FALSE, SteadyClock(now)) = tree

\* C7's case: two windows in mid-animation, a focused window in the tree
\* that a message could fall back to, and a window the tree does not hold
C7_Witness ==
    /\ Cardinality(tiled) = 2
    /\ now >= 1
    /\ tree.m_focusedView \in tiled
    /\ \E n \in Leaves(tree.heap) :
          LET w == tree.heap[n].m_geometry.width
          IN w.m_animating /\ w.m_value # w.m_start /\ w.m_value # w.m_goal
    /\ \E v \in Views \ tiled :
          /\ ~hasView(tree, v)
          /\ handleLayoutMessage(tree, "togglesplit", v, Rect(0, 0, 640, 480), SteadyClock(now)) = tree

\* C8: with smart-split enabled, once insert has returned, the split it
\* created has the direction of the axis on which the last cursor position
\* is relatively farther from the centre of the target leaf's goal
\* rectangle (horizontal when the relative x offset exceeds the relative y
\* offset, vertical otherwise), for every preserve-split setting.  The
\* centre and the half-extents are the integers determineSplitDirection
\* computes, and both half-extents are positive.
C8_SmartSplitDirection ==
    \A v \in (Views \cup {ProbeView}) \ tiled :
        (tree.m_smartSplit /\ tiled # {}) =>
            LET target == SplitTargetOf(tree)
                G == GoalOf(tree.heap, target)
                T2 == addView(tree, v, TRUE, SteadyClock(now))
                created == T2.heap[target].m_parent
            IN (TruncDiv(G.width, 2) > 0 /\ TruncDiv(G.height, 2) > 0) =>
                  T2.heap[created].m_splitDir = SmartDir(G, tree.m_cursorPos)

\* The direction the aspect rule gives a split of goal rectangle G
AspectRuleDir(G, mult) ==
    IF G.width * mult.num > G.height * mult.den THEN HORIZONTAL ELSE VERTICAL

\* Every unlocked split of T has the direction of the aspect rule
UnlockedFollowAspect(T) ==
    \A s \in Splits(T.heap) :
        ~T.heap[s].m_splitLocked =>
            T.heap[s].m_splitDir = AspectRuleDir(GoalOf(T.heap, s), T.m_splitWidthMultiplier)

\* C9: with preserve-split off, after every layout recalculation each split
\* that is not direction-locked is horizontal exactly when its goal width
\* times the split-width multiplier is greater than its goal height, and
\* vertical otherwise; with preserve-split on, or for a locked node, a
\* recalculation (also one after a bounds change) leaves the direction
\* unchanged.
C9_AspectRuleUnlessPreserved ==
    /\ ~tree.m_preserveSplit => UnlockedFollowAspect(tree)
    /\ \A b \in BoundsSet :
          LET T2 == recalculateLayout(setBounds(tree, b), TRUE, SteadyClock(now))
          IN /\ ~tree.m_preserveSplit => UnlockedFollowAspect(T2)
             /\ \A s \in Splits(tree.heap) :
                   (tree.m_preserveSplit \/ tree.heap[s].m_splitLocked) =>
                       T2.heap[s].m_splitDir = tree.heap[s].m_splitDir

\* C9's case: preserve-split off, an unlocked split that the rule makes
\* vertical, and a locked split whose direction the rule would change
C9_Witness ==
    /\ ~tree.m_preserveSplit
    /\ \E s \in Splits(tree.heap) :
          ~tree.heap[s].m_splitLocked /\ tree.heap[s].m_splitDir = VERTICAL
    /\ \E s \in Splits(tree.heap) :
          /\ tree.heap[s].m_splitLocked
          /\ tree.heap[s].m_splitDir #
                AspectRuleDir(GoalOf(tree.heap, s), tree.m_splitWidthMultiplier)

Flip(dir) == IF dir = HORIZONTAL THEN VERTICAL ELSE HORIZONTAL

\* Split s is in T2 the locked split of the direction it has in T
LockKept(T, T2, s) ==
    /\ IsLive(T2.heap, s)
    /\ ~T2.heap[s].m_isLeaf
    /\ T2.heap[s].m_splitLocked
    /\ T2.heap[s].m_splitDir = T.heap[s].m_splitDir

\* The window a message with target v acts on
MessageWindow(T, v) == IF v # NoView THEN v ELSE T.m_focusedView

\* C10: toggle-split on a window whose leaf has a parent flips that
\* parent's direction and locks it; as long as a locked split exists, no
\* bounds change, recalculation, tick, insert or remove changes its
\* direction or clears its lock, no message clears its lock, and the only
\* message that changes its direction is a toggle-split on one of its
\* children.
C10_ToggleSplitLocks ==
    /\ \A v \in tiled :
          \A node \in LeafOfView(tree.heap, v) :
              parent(tree.heap, node) # Null =>
                  LET p == parent(tree.heap, node)
                      T2 == handleLayoutMessage(tree, "togglesplit", v, Rect(0, 0, 640, 480),
                                                SteadyClock(now))
                  IN /\ T2.heap[p].m_splitDir = Flip(tree.heap[p].m_splitDir)
                     /\ T2.heap[p].m_splitLocked
    /\ \A s \in Splits(tree.heap) :
          tree.heap[s].m_splitLocked =>
              /\ \A b \in BoundsSet :
                    LockKept(tree, recalculateLayout(setBounds(tree, b), TRUE, SteadyClock(now)), s)
              /\ LockKept(tree, recalculateLayout(tree, TRUE, SteadyClock(now)), s)
              /\ LockKept(tree, tickAnimations(tree, SteadyClock(now)), s)
              /\ \A v \in (Views \cup {ProbeView}) \ tiled :
                    LockKept(tree, addView(tree, v, TRUE, SteadyClock(now)), s)
              /\ \A v \in tiled :
                    LET T2 == removeView(tree, v, TRUE, SteadyClock(now))
                    IN IsLive(T2.heap, s) => LockKept(tree, T2, s)
              /\ \A msg \in MsgSet, v \in Views \cup {NoView} :
                    LET T2 == handleLayoutMessage(tree, msg, v, Rect(0, 0, 640, 480),
                                                  SteadyClock(now))
                    IN /\ IsLive(T2.heap, s) /\ T2.heap[s].m_splitLocked
                       /\ T2.heap[s].m_splitDir # tree.heap[s].m_splitDir =>
                             /\ msg = "togglesplit"
                             /\ \E c \in LeafOfView(tree.heap, MessageWindow(tree, v)) :
                                   tree.heap[c].m_parent = s

\* C10's case: preserve-split off and three windows under a locked root
\* that stacks its children although its goal is wider than high, with a
\* leaf of its own to toggle and a leaf below the other split to remove
C10_Witness ==
    /\ ~tree.m_preserveSplit
    /\ Cardinality(tiled) = 3
    /\ tree.m_bounds = Rect(0, 0, 1920, 1080)
    /\ tree.heap[tree.m_root].m_splitLocked
    /\ tree.heap[tree.m_root].m_splitDir = VERTICAL
    /\ \E c \in Leaves(tree.heap) : tree.heap[c].m_parent = tree.m_root

\* The windows of T, as a set
WindowsOf(T) == {T.heap[n].m_view : n \in Leaves(T.heap)}

\* Every node of T2 is linked as C2 asks
LinksConsistent(T2) ==
    /\ \A n \in LiveNodes(T2.heap) :
          /\ n # T2.m_root => /\ parent(T2.heap, n) # Null
                              /\ childIndex(T2.heap, n) \in {0, 1}
          /\ \A i \in {0, 1} :
                T2.heap[n].m_children[i] # Null => T2.heap[T2.heap[n].m_children[i]].m_parent = n
    /\ T2.m_root # Null => T2.heap[T2.m_root].m_parent = Null

\* T2 is T with the two children of p in each other's slot and nothing else
\* relinked
SlotsExchanged(T, T2, p) ==
    /\ LiveNodes(T2.heap) = LiveNodes(T.heap)
    /\ T2.m_root = T.m_root
    /\ T2.heap[p].m_children[0] = T.heap[p].m_children[1]
    /\ T2.heap[p].m_children[1] = T.heap[p].m_children[0]
    /\ T2.heap[p].m_parent = T.heap[p].m_parent
    /\ T2.heap[p].m_splitDir = T.heap[p].m_splitDir
    /\ T2.heap[p].m_splitLocked = T.heap[p].m_splitLocked
    /\ \A n \in LiveNodes(T.heap) \ {p} : SameLinks(T, T2, n)
    /\ WindowsOf(T2) = WindowsOf(T)
    /\ LinksConsistent(T2)

\* C11: swap-sibling (swapnext or swapprev) on a window whose leaf has a
\* parent exchanges the leaf and its sibling subtree between slots 0 and 1
\* of the parent; the set of windows, the parent's direction, the
\* parent/child consistency and the links of all other nodes stay as they
\* were, and applying it twice gives back the original tree.
C11_SwapExchangesSlots ==
    \A v \in tiled, msg \in {"swapnext", "swapprev"} :
        \A node \in LeafOfView(tree.heap, v) :
            parent(tree.heap, node) # Null =>
                LET geo == Rect(0, 0, 640, 480)
                    T2 == handleLayoutMessage(tree, msg, v, geo, SteadyClock(now))
                    T3 == handleLayoutMessage(T2, msg, v, geo, SteadyClock(now))
                IN /\ SlotsExchanged(tree, T2, parent(tree.heap, node))
                   /\ T2.heap[parent(tree.heap, node)].m_children[1 - childIndex(tree.heap, node)] = node
                   /\ \A n \in LiveNodes(tree.heap) :
                         /\ T3.heap[n].m_children = tree.heap[n].m_children
                         /\ T3.heap[n].m_parent = tree.heap[n].m_parent
                         /\ T3.heap[n].m_splitDir = tree.heap[n].m_splitDir
                   /\ T3.m_root = tree.m_root

\* C11's case: the swapped leaf sits in slot 0 of the root and its sibling
\* is a split, so a whole subtree changes slot
C11_Witness ==
    \E v \in tiled :
        \E node \in LeafOfView(tree.heap, v) :
            /\ parent(tree.heap, node) = tree.m_root
            /\ childIndex(tree.heap, node) = 0
            /\ ~tree.heap[tree.heap[tree.m_root].m_children[1]].m_isLeaf
            /\ handleLayoutMessage(tree, "swapnext", v, Rect(0, 0, 640, 480),
                                   SteadyClock(now)).heap[tree.m_root].m_children[1] = node

\* C12: for every tree that contains the target leaf, toggle-pseudotile
\* flips that leaf's pseudotile flag and, when the flag turns on, sets the
\* leaf's preferred size to the size the window reports; whether the target
\* was named or resolved from the focused window, and also when the leaf is
\* the sole root.
C12_PseudotileToggles ==
    \A v \in Views \cup {NoView}, geo \in ViewGeometrySet :
        \A node \in LeafOfView(tree.heap, MessageWindow(tree, v)) :
            LET T2 == handleLayoutMessage(tree, "pseudo", v, geo, SteadyClock(now))
            IN /\ T2.heap[node].m_isPseudotiled = ~tree.heap[node].m_isPseudotiled
               /\ T2.heap[node].m_isPseudotiled => T2.heap[node].m_preferredSize = geo

\* Scalar av was given a goal by an animated set at instant t and has not
\* been touched since
JustSet(av, t) ==
    av.m_animating /\ av.m_startTime = t /\ av.m_start = av.m_value

\* T is as a full animated recalculation from the root at instant t leaves
\* it: every node of the tree has been given its goal rectangle at t, the
\* root's goal is the inset workarea and the children of every split tile it
RecalculatedAt(T, t) ==
    /\ T.m_root # Null
    /\ GoalOf(T.heap, T.m_root) = effectiveBounds(T)
    /\ \A s \in Splits(T.heap) : TilesGoal(T.heap, s, T.m_gapIn)
    /\ \A n \in Reachable(T.heap, T.m_root) :
          LET g == T.heap[n].m_geometry
          IN JustSet(g.x, t) /\ JustSet(g.y, t) /\ JustSet(g.width, t) /\ JustSet(g.height, t)

\* The leaves a message with target v is about
MessageLeaves(T, v) == LeafOfView(T.heap, MessageWindow(T, v))

\* C13 as stated: every message that names, or resolves through the focused
\* window to, a window in the tree ends with a full animated recalculation
\* from the root, whatever the operation and whether or not the target leaf
\* has a parent.
C13_EveryMessageRecalculates ==
    \A msg \in MsgSet, v \in Views \cup {NoView}, geo \in ViewGeometrySet :
        MessageLeaves(tree, v) # {} =>
            RecalculatedAt(handleLayoutMessage(tree, msg, v, geo, SteadyClock(now)), now)

\* C13, amended: a toggle-split, swap or toggle-pseudotile message whose
\* target leaf has a parent ends with a full animated recalculation from
\* the root; a message of any other name, and any message whose target leaf
\* is the root, leaves the tree as it is, with no recalculation.
C13_KnownMessageWithParentRecalculates ==
    \A msg \in MsgSet, v \in Views \cup {NoView}, geo \in ViewGeometrySet :
        \A node \in MessageLeaves(tree, v) :
            LET T2 == handleLayoutMessage(tree, msg, v, geo, SteadyClock(now))
            IN IF tree.heap[node].m_parent # Null /\ msg # "unknown"
               THEN RecalculatedAt(T2, now)
               ELSE T2 = tree

\* C13's case: two windows whose animation started before now, so that the
\* tree is not already as a recalculation at now leaves it, and a window of
\* the tree that is the focused one
C13_Witness ==
    /\ Cardinality(tiled) = 2
    /\ now >= 1
    /\ tree.m_focusedView \in tiled
    /\ ~RecalculatedAt(tree, now)
    /\ RecalculatedAt(handleLayoutMessage(tree, "swapnext", NoView, Rect(0, 0, 640, 480),
                                          SteadyClock(now)), now)

\* The six animated scalars of a rectangle, and all scalars of a tree
ScalarsOf(g) == {g.x, g.y, g.width, g.height, g.scale, g.alpha}
AllScalars(T) == UNION {ScalarsOf(T.heap[n].m_geometry) : n \in LiveNodes(T.heap)}

\* C14 as stated: in every reachable state an animated scalar that is not
\* animating has its current value, its start value and its goal value all
\* equal, also after an animation has run to completion through advance.
C14_IdleScalarAllEqual ==
    \A av \in AllScalars(tree) :
        ~av.m_animating => (av.m_value = av.m_goal /\ av.m_start = av.m_goal)

\* C14, amended: in every reachable state an animated scalar that is not
\* animating has its current value equal to its goal value (its start value
\* is whatever the last animated set recorded).
C14_IdleScalarAtGoal ==
    \A av \in AllScalars(tree) : ~av.m_animating => av.m_value = av.m_goal

\* C14's case: a scalar whose animation advance has run to completion: idle,
\* at its goal, with the start value of the finished animation
C14_Witness ==
    \E av \in AllScalars(tree) :
        /\ ~av.m_animating
        /\ av.m_value = av.m_goal
        /\ av.m_start # av.m_goal
        /\ now >= av.m_startTime + av.m_durationMs

\* Targets and durations setGoal is tried with
GoalSet == {-3, 0, 947, 1900}
DurationSet == {-1, 0, DurationMs}

\* What C15 says of r, the scalar av after set(goal, animate) with duration d
SetGoalContract(av, r, goal, animate, d) ==
    IF ~animate \/ d <= 0
    THEN /\ r.m_value = goal /\ r.m_start = goal /\ r.m_goal = goal
         /\ ~r.m_animating
    ELSE /\ r.m_value = av.m_value
         /\ r.m_start = av.m_value
         /\ r.m_goal = goal
         /\ r.m_animating

\* C15: setGoal with animate false or with duration <= 0 sets current,
\* start and goal to the target and clears animating; otherwise it leaves
\* the current value unchanged, sets start to that current value and goal
\* to the target and marks animating, so re-targeting an in-flight
\* animation never changes the current value at the moment of the call.
\* The same holds of the four scalars of a rectangle given a goal rectangle.
C15_SetGoalContract ==
    /\ \A av \in AllScalars(tree), goal \in GoalSet, animate \in BOOLEAN, d \in DurationSet :
          SetGoalContract(av, AVset(AVsetConfig(av, d), goal, animate, now), goal, animate, d)
    /\ \A n \in LiveNodes(tree.heap), animate \in BOOLEAN, d \in DurationSet :
          LET g == AGsetConfig(tree.heap[n].m_geometry, d)
              geo == Rect(7, -3, 947, 0)
              r == AGsetGoal(g, geo, animate, SteadyClock(now), 0)
          IN /\ SetGoalContract(g.x, r.x, geo.x, animate, d)
             /\ SetGoalContract(g.y, r.y, geo.y, animate, d)
             /\ SetGoalContract(g.width, r.width, geo.width, animate, d)
             /\ SetGoalContract(g.height, r.height, geo.height, animate, d)
             /\ r.scale = g.scale /\ r.alpha = g.alpha

\* C15's case: a scalar in flight, strictly between its start and its
\* goal, that an animated set re-targets without moving it
C15_Witness ==
    \E av \in AllScalars(tree) :
        /\ av.m_animating
        /\ av.m_value # av.m_start
        /\ av.m_value # av.m_goal
        /\ AVset(av, 0, TRUE, now).m_value = av.m_value
        /\ AVset(av, 0, TRUE, now).m_start # av.m_start

\* s + (g - s) * e / d in exact arithmetic, truncated toward zero
ExactLerp(s, g, e, d) == TruncDiv(s * d + (g - s) * e, d)

\* e / d is a dyadic fraction of at most eight binary places
Dyadic(e, d) == (e * 256) % d = 0

\* Scalar av, animating, reaches and keeps its goal when ticked at elapsed
\* time e >= d: the tick returns false, and so does every later one, which
\* changes nothing
CompletesAt(av, e) ==
    LET t == av.m_startTime + e
        r == AVtick(av, t)
    IN /\ r.m_value = av.m_goal
       /\ ~r.m_animating
       /\ ~AVtickResult(av, t)
       /\ \A later \in 0..2 : AVtick(r, t + later) = r /\ ~AVtickResult(r, t + later)

\* C16 as stated: for an integer scalar animating from s to g over
\* duration d with a linear curve, advance at elapsed time e < d sets
\* current to s + (g - s) * e / d truncated toward zero and returns true;
\* the first advance at e >= d sets current to exactly g and returns false,
\* and every later advance returns false and changes nothing.
C16_AdvanceIsExactQuotient ==
    scalar.m_animating =>
        \A e \in 0..(scalar.m_durationMs + 2) :
            IF e < scalar.m_durationMs
            THEN /\ AVtick(scalar, scalar.m_startTime + e).m_value =
                       ExactLerp(scalar.m_start, scalar.m_goal, e, scalar.m_durationMs)
                 /\ AVtick(scalar, scalar.m_startTime + e).m_animating
                 /\ AVtickResult(scalar, scalar.m_startTime + e)
            ELSE CompletesAt(scalar, e)

\* C16, amended: advance at elapsed time e < d sets current to the
\* single-precision value of s + (g - s) * (e / d) truncated toward zero,
\* which is within one of the exact quotient truncated toward zero, equal
\* to it when e / d is a dyadic fraction (0 to 100 over 300 ms gives 50 at
\* 150 ms), and never outside the range from s to g; it returns true.  The
\* first advance at e >= d sets current to exactly g and returns false, and
\* every later advance returns false and changes nothing.
C16_AdvanceIsFloatQuotient ==
    scalar.m_animating =>
        \A e \in 0..(scalar.m_durationMs + 2) :
            IF e < scalar.m_durationMs
            THEN LET r == AVtick(scalar, scalar.m_startTime + e)
                     x == ExactLerp(scalar.m_start, scalar.m_goal, e, scalar.m_durationMs)
                 IN /\ Abs(r.m_value - x) <= 1
                    /\ Dyadic(e, scalar.m_durationMs) => r.m_value = x
                    /\ (scalar.m_start <= r.m_value /\ r.m_value <= scalar.m_goal)
                       \/ (scalar.m_goal <= r.m_value /\ r.m_value <= scalar.m_start)
                    /\ r.m_animating
                    /\ AVtickResult(scalar, scalar.m_startTime + e)
            ELSE CompletesAt(scalar, e)

\* C16's case: the scalar animates from 0 to 100 over 300 ms and has been
\* advanced at 159 ms, where the float product falls short of 53
C16_Witness ==
    /\ scalar.m_animating
    /\ scalar.m_start = 0 /\ scalar.m_goal = 100 /\ scalar.m_durationMs = 300
    /\ now = scalar.m_startTime + 159
    /\ scalar.m_value = 52
    /\ AVtick(scalar, scalar.m_startTime + 150).m_value = 50
    /\ AVtick(scalar, scalar.m_startTime + 300).m_value = 100

LayoutFields == {"x", "y", "width", "height"}

\* The scalars a recalculation gives goals to, recalculated with the clock
\* clk1 and then advanced in one pass with the clock clk2, agree: they are
\* all still animating or all complete, and two of them that started from
\* equal values toward equal goals have equal current values
PassAgrees(T, clk1, clk2) ==
    LET T1 == recalculateLayout(T, TRUE, clk1)
        T2 == tickAnimations(T1, clk2)
    IN T.m_root # Null =>
        \A n1 \in Reachable(T1.heap, T1.m_root), n2 \in Reachable(T1.heap, T1.m_root) :
            \A f1 \in LayoutFields, f2 \in LayoutFields :
                LET p1 == T1.heap[n1].m_geometry[f1]
                    p2 == T1.heap[n2].m_geometry[f2]
                    q1 == T2.heap[n1].m_geometry[f1]
                    q2 == T2.heap[n2].m_geometry[f2]
                IN /\ q1.m_animating = q2.m_animating
                   /\ (p1.m_start = p2.m_start /\ p1.m_goal = p2.m_goal)
                         => q1.m_value = q2.m_value

\* C17: within one advance pass over a tree, every scalar of every node is
\* evaluated against one and the same instant, so scalars that were given
\* their goals by the same recalculation have the same progress and reach
\* completion in the same pass.
C17_OnePassOneInstant ==
    \A b1 \in BumpPositions, b2 \in BumpPositions, e \in 0..DurationMs :
        PassAgrees(tree, ClockOf(b1), [t |-> ClockAfter(ClockOf(b1)) + e, bump |-> b2])

\* With a clock that stands still during the recalculation and during the
\* pass, the scalars of one recalculation do agree
SteadyPassAgrees ==
    \A e \in 0..DurationMs : PassAgrees(tree, SteadyClock(now), SteadyClock(now + e))

ScalarFields == {"x", "y", "width", "height", "scale", "alpha"}

\* T2 is T after one advance pass with the clock clk: every scalar of every
\* node of the tree has been advanced once, against an instant the clock
\* showed during the pass, and nothing else has changed
AdvancedOnce(T, T2, clk) ==
    /\ \A n \in Reachable(T.heap, T.m_root) : \A f \in ScalarFields :
          \E t \in {clk.t, ClockAfter(clk)} :
              T2.heap[n].m_geometry[f] = AVtick(T.heap[n].m_geometry[f], t)
    /\ \A n \in DOMAIN T.heap :
          T2.heap[n] = [T.heap[n] EXCEPT !.m_geometry = T2.heap[n].m_geometry]
    /\ T2 = [T EXCEPT !.heap = T2.heap]

\* C18: one advance of a tree advances all six scalars of every node
\* exactly once, never skipping a node or a scalar because an earlier one
\* reported still-animating, and returns true exactly when at least one
\* scalar in the tree is still animating after the pass.
C18_AdvanceReachesEveryScalar ==
    \A bump \in BumpPositions, e \in 0..DurationMs :
        LET clk == [t |-> now + e, bump |-> bump]
            T2 == tickAnimations(tree, clk)
        IN /\ AdvancedOnce(tree, T2, clk)
           /\ tickAnimationsResult(tree, clk) <=>
                 \E n \in Reachable(T2.heap, T2.m_root), f \in ScalarFields :
                     T2.heap[n].m_geometry[f].m_animating

\* C18's case: a tree of three nodes whose root's x is still animating after
\* a pass at the current instant, in which a scalar of a child completes
C18_Witness ==
    LET T2 == tickAnimations(tree, SteadyClock(now))
    IN /\ tree.m_root # Null
       /\ ~tree.heap[tree.m_root].m_isLeaf
       /\ T2.heap[tree.m_root].m_geometry.x.m_animating
       /\ tickAnimationsResult(tree, SteadyClock(now))
       /\ \E n \in Leaves(tree.heap), f \in ScalarFields :
             /\ tree.heap[n].m_geometry[f].m_animating
             /\ ~T2.heap[n].m_geometry[f].m_animating

\* Some scalar of some node of the tree is animating
TreeAnimating(T) ==
    \E n \in Reachable(T.heap, T.m_root), f \in ScalarFields : T.heap[n].m_geometry[f].m_animating

\* The step is a tick of the plugin in which no tree reported still-animating
QuietTick ==
    \E bumpWs \in Workspaces, bump \in PluginBumps :
        /\ plugin' = Plugin_tickAnimations(plugin, PassClocks(bumpWs, bump))
        /\ \A w \in DOMAIN plugin.m_trees :
              ~tickAnimationsResult(plugin.m_trees[w], PassClocks(bumpWs, bump)[w])

\* C19: in the plugin, whenever any scalar in any workspace tree is
\* animating, the per-frame animation hook is registered (animation loop
\* active), so advance keeps being called every frame; the loop is stopped
\* only in a tick in which no tree reported still-animating.
C19_LoopRunsWhileAnimating ==
    /\ []((\E w \in DOMAIN plugin.m_trees : TreeAnimating(plugin.m_trees[w]))
             => (plugin.effect /\ plugin.m_animationActive))
    /\ [][(plugin.effect /\ ~plugin'.effect) => QuietTick]_vars

\* C19's case: the tree of a workspace the output does not show is
\* animating, the tree of the shown workspace is not, and a frame has
\* already been ticked with the loop kept running
C19_Witness ==
    /\ plugin.effect
    /\ \E w \in DOMAIN plugin.m_trees :
          w # plugin.currentWs /\ TreeAnimating(plugin.m_trees[w])
    /\ plugin.currentWs \in DOMAIN plugin.m_trees
    /\ plugin.m_trees[plugin.currentWs].m_root # Null
    /\ ~TreeAnimating(plugin.m_trees[plugin.currentWs])

\* C20: the plugin never applies a goal rectangle with non-positive width
\* or height to a view: neither the per-frame apply, nor the
\* end-of-animation finalize, nor the workspace-switch handler calls
\* set_geometry with such a rectangle.
C20_NeverAppliesEmptyRectangle ==
    \A v \in Views :
        plugin.applied[v] # NotApplied =>
            (plugin.applied[v][1].width > 0 /\ plugin.applied[v][1].height > 0)

\* The per-frame apply alone never hands set_geometry such a rectangle
ApplyIsGuarded ==
    \A w \in DOMAIN plugin.m_trees, v \in Views :
        LET after == applyAnimatedGeometry(plugin, v, plugin.m_trees[w]).applied[v]
        IN after # plugin.applied[v] => (after[1].width > 0 /\ after[1].height > 0)

\* The shape of the subtree at n: a leaf with its window, or a split with
\* the shapes of child 0 and child 1
RECURSIVE Shape(_, _)
Shape(h, n) ==
    IF h[n].m_isLeaf THEN <<"leaf", h[n].m_view>>
    ELSE <<"split", Shape(h, h[n].m_children[0]), Shape(h, h[n].m_children[1])>>

ShapeOf(T) == Shape(T.heap, T.m_root)

AllViews == Views \cup {ProbeView}

\* No window of the tree is the tracked focused window
NoFocusInTree(T) == T.m_focusedView = NoView \/ LeafOfView(T.heap, T.m_focusedView) = {}

\* The split that insert made over target has target in slot 0 and the
\* leaf of window v in slot 1
ExistingFirst(T2, v, target) ==
    LET s == T2.heap[target].m_parent
    IN /\ s # Null
       /\ T2.heap[s].m_children[0] = target
       /\ T2.heap[T2.heap[s].m_children[1]].m_view = v

\* C21: inserting windows w1, w2, w3 in that order with the default
\* force-split mode, smart-split off and no focused window in the tree
\* yields exactly the shape split(w1, split(w2, w3)); in general each
\* further such insert splits the leaf reached by always descending into
\* child 1, with the existing leaf in slot 0 and the new leaf in slot 1.
C21_DwindleShape ==
    (tree.m_forceSplit = 0 /\ ~tree.m_smartSplit) =>
        /\ tree.m_root = Null =>
              \A w1 \in AllViews, w2 \in AllViews, w3 \in AllViews :
                  (Cardinality({w1, w2, w3, tree.m_focusedView}) = 4) =>
                      LET T1 == addView(tree, w1, TRUE, SteadyClock(now))
                          T2 == addView(T1, w2, TRUE, SteadyClock(now))
                          T3 == addView(T2, w3, TRUE, SteadyClock(now))
                      IN ShapeOf(T3) = <<"split", <<"leaf", w1>>,
                                         <<"split", <<"leaf", w2>>, <<"leaf", w3>>>>>>
        /\ (tree.m_root # Null /\ NoFocusInTree(tree)) =>
              \A v \in AllViews \ tiled :
                  LET T2 == addView(tree, v, TRUE, SteadyClock(now))
                      target == Descend1(tree.heap, tree.m_root)
                  IN /\ InsertedInPlace(tree, T2, v, target)
                     /\ ExistingFirst(T2, v, target)

\* C21's case: windows 1, 2, 3 were inserted in that order with no focus,
\* and a fourth insert goes below window 3
C21_Witness ==
    /\ tree.m_forceSplit = 0 /\ ~tree.m_smartSplit
    /\ tree.m_focusedView = NoView
    /\ tree.m_root # Null
    /\ ShapeOf(tree) = <<"split", <<"leaf", 1>>, <<"split", <<"leaf", 2>>, <<"leaf", 3>>>>>>
    /\ ShapeOf(addView(tree, ProbeView, TRUE, SteadyClock(now))) =
          <<"split", <<"leaf", 1>>,
            <<"split", <<"leaf", 2>>, <<"split", <<"leaf", 3>>, <<"leaf", ProbeView>>>>>>>>

\* The tree of the shown workspace holds two or more windows, the tracked
\* focused window among them
FocusedAmongTwo(P) ==
    /\ P.currentWs \in DOMAIN P.m_trees
    /\ Len(getViews(P.m_trees[P.currentWs])) >= 2
    /\ LeafOfView(P.m_trees[P.currentWs].heap, P.m_trees[P.currentWs].m_focusedView) # {}

\* C22: in the plugin, a newly mapped window on a workspace that already
\* has two or more tiled windows splits the leaf of the window that was
\* tracked as focused before the map, not the last leaf of the dwindle
\* fallback, whenever such a focused tiled window exists in that
\* workspace's tree.
C22_MapSplitsFocusedLeaf ==
    FocusedAmongTwo(plugin) =>
        \A v \in AllViews \ tiled, cursor \in CursorSet :
            LET T == plugin.m_trees[plugin.currentWs]
                P2 == on_view_mapped(plugin, v, cursor, SteadyClock(now))
            IN InsertedInPlace(T, P2.m_trees[plugin.currentWs], v,
                               CHOOSE n \in LeafOfView(T.heap, T.m_focusedView) : TRUE)

\* What the map does instead: the new window splits the last leaf of the
\* dwindle fallback, whatever window was tracked as focused
MapSplitsLastLeaf ==
    FocusedAmongTwo(plugin) =>
        \A v \in AllViews \ tiled, cursor \in CursorSet :
            LET T == plugin.m_trees[plugin.currentWs]
                P2 == on_view_mapped(plugin, v, cursor, SteadyClock(now))
            IN InsertedInPlace(T, P2.m_trees[plugin.currentWs], v, Descend1(T.heap, T.m_root))

\* The slot (0 or 1) that the leaf of window v has in its parent
SlotOfView(T, v) ==
    LET l == CHOOSE n \in LeafOfView(T.heap, v) : TRUE
    IN IF T.heap[T.heap[l].m_parent].m_children[0] = l THEN 0 ELSE 1

\* The cursor lies beyond the centre of rectangle geo along the axis dir
CursorBeyondCentre(geo, dir, cursor) ==
    IF dir = HORIZONTAL THEN 2 * cursor.x > 2 * geo.x + geo.width
    ELSE 2 * cursor.y > 2 * geo.y + geo.height

\* The slot the statement gives the new leaf when a window is inserted
\* into the non-empty tree T
StatedSlot(T) ==
    IF T.m_forceSplit = 1 THEN 0
    ELSE IF T.m_forceSplit = 2 THEN 1
    ELSE IF T.m_smartSplit /\ ~T.heap[T.m_root].m_isLeaf
    THEN LET target == SplitTargetOf(T)
             geo == GoalOf(T.heap, target)
             dir == determineSplitDirection(T, T.heap, geo, target)
         IN IF CursorBeyondCentre(geo, dir, T.m_cursorPos) THEN 1 ELSE 0
    ELSE 1

\* C23: the new leaf's slot follows the force-split mode: with
\* new-window-first the new leaf is child 0 of the split that insert
\* creates; with new-window-second the existing leaf is child 0; in
\* cursor-driven mode the existing leaf is child 0, except that on insert
\* into a tree of two or more windows with smart-split on the new leaf is
\* child 1 exactly when the cursor lies beyond the target leaf's centre
\* along the chosen split axis and child 0 otherwise.
C23_SlotFollowsForceSplit ==
    tree.m_root # Null =>
        \A v \in AllViews \ tiled :
            LET T2 == addView(tree, v, TRUE, SteadyClock(now))
                target == IF tree.heap[tree.m_root].m_isLeaf THEN tree.m_root ELSE SplitTargetOf(tree)
            IN /\ LeafOfView(T2.heap, v) # {}
               /\ SlotOfView(T2, v) = StatedSlot(tree)
               /\ T2.heap[T2.heap[target].m_parent].m_children[1 - StatedSlot(tree)] = target

\* C23's case: cursor-driven mode with smart-split on, a tree of two
\* windows, and the cursor not beyond the target's centre: the new leaf
\* takes slot 0, and slot 1 had the cursor been at (1500, 600)
C23_Witness ==
    /\ tree.m_forceSplit = 0 /\ tree.m_smartSplit
    /\ Cardinality(tiled) = 2
    /\ tree.m_cursorPos = [x |-> 0, y |-> 0]
    /\ StatedSlot(tree) = 0
    /\ SlotOfView(addView(tree, ProbeView, TRUE, SteadyClock(now)), ProbeView) = 0
    /\ SlotOfView(addView([tree EXCEPT !.m_cursorPos = [x |-> 1500, y |-> 600]], ProbeView, TRUE,
                          SteadyClock(now)), ProbeView) = 1

\* The half of rectangle r in slot 0 or 1 along the axis dir
HalfOf(r, dir, slot) ==
    IF dir = HORIZONTAL
    THEN Rect(r.x + slot * TruncDiv(r.width, 2), r.y, TruncDiv(r.width, 2), r.height)
    ELSE Rect(r.x, r.y + slot * TruncDiv(r.height, 2), r.width, TruncDiv(r.height, 2))

\* The rectangle an insert into the non-empty tree T splits
PreSplitRect(T) ==
    IF T.heap[T.m_root].m_isLeaf THEN effectiveBounds(T) ELSE GoalOf(T.heap, SplitTargetOf(T))

\* Right after window v is inserted into T, its leaf's current rectangle is
\* the half of the pre-split rectangle in the slot and along the axis
\* that the leaf has in the layout of the insert
StartsInItsHalf(T, v) ==
    LET T2 == addView(T, v, TRUE, SteadyClock(now))
        l == CHOOSE n \in LeafOfView(T2.heap, v) : TRUE
        s == T2.heap[l].m_parent
    IN AGcurrent(T2.heap[l].m_geometry) =
          HalfOf(PreSplitRect(T), T2.heap[s].m_splitDir, SlotOfView(T2, v))

\* C24: immediately after insert into a non-empty tree, before any
\* advance, the new leaf's current rectangle is the half of the pre-split
\* rectangle (the gap-adjusted bounds for the second window, the target
\* leaf's goal rectangle otherwise) that lies on the side and along the
\* axis the new leaf occupies in the layout computed by that same insert.
C24_NewLeafStartsInItsHalf ==
    \A w \in DOMAIN plugin.m_trees :
        plugin.m_trees[w].m_root # Null =>
            \A v \in AllViews \ tiled : StartsInItsHalf(plugin.m_trees[w], v)

\* The same with smart_split off
StartsInItsHalfWithoutSmartSplit ==
    \A w \in DOMAIN plugin.m_trees :
        (plugin.m_trees[w].m_root # Null /\ ~plugin.m_trees[w].m_smartSplit) =>
            \A v \in AllViews \ tiled : StartsInItsHalf(plugin.m_trees[w], v)

\* rectangle r shrunk by g on every side
Shrunk(r, g) == Rect(r.x + g, r.y + g, r.width - 2 * g, r.height - 2 * g)

\* The instants of the advances that may follow the present one
LaterInstants == now .. (MaxTime + DurationMs)

\* Window v inserted into the empty tree T becomes the root leaf, at rest in
\* the shrunk bounds, with scale and alpha under way from PopScale and 0
EntersAsRoot(T, v) ==
    LET T2 == addView(T, v, TRUE, SteadyClock(now))
        g == T2.heap[T2.m_root].m_geometry
        home == Shrunk(T.m_bounds, T.m_gapOut)
    IN /\ T2.m_root # Null
       /\ T2.heap[T2.m_root].m_isLeaf
       /\ T2.heap[T2.m_root].m_view = v
       /\ AGcurrent(g) = home
       /\ AGgoal(g) = home
       /\ \A t1 \in LaterInstants : \A t2 \in t1 .. (MaxTime + DurationMs) :
             LET A1 == tickAnimations(T2, SteadyClock(t1))
                 A2 == tickAnimations(A1, SteadyClock(t2))
             IN /\ AGcurrent(A1.heap[A1.m_root].m_geometry) = home
                /\ AGcurrent(A2.heap[A2.m_root].m_geometry) = home
       /\ g.scale.m_animating /\ g.scale.m_value = PopScale /\ g.scale.m_goal = FloatOne
       /\ g.alpha.m_animating /\ g.alpha.m_value = 0 /\ g.alpha.m_goal = FloatOne

\* C25: insert into an empty tree makes the new leaf the root with current
\* and goal rectangle both equal to the bounds shrunk by the outer gap on
\* every side, so that its position and size show no transition in any later
\* advance, while its scale and alpha start an enter effect.
C25_FirstWindowEntersInPlace ==
    tree.m_root = Null => \A v \in AllViews : EntersAsRoot(tree, v)

\* A lone window, inserted into the tree emptied by a removal, half way
\* through its enter effect and at rest in the shrunk bounds
C25_Witness ==
    /\ now > 0
    /\ tree.m_root # Null
    /\ tree.heap[tree.m_root].m_isLeaf
    /\ LET g == tree.heap[tree.m_root].m_geometry
       IN /\ g.scale.m_animating
          /\ g.scale.m_value > PopScale /\ g.scale.m_value < FloatOne
          /\ g.alpha.m_value > 0 /\ g.alpha.m_value < FloatOne
          /\ g.x.m_startTime > 0
          /\ AGcurrent(g) = Shrunk(tree.m_bounds, tree.m_gapOut)

\* The extent of rectangle r along the axis dir
ExtentAlong(r, dir) == IF dir = HORIZONTAL THEN r.width ELSE r.height

\* The extent the layout pass shares out among the children of split s
AvailableOf(T, s) == ExtentAlong(GoalOf(T.heap, s), T.heap[s].m_splitDir) - T.m_gapIn

\* The extents, along the axis of split s, of its two children are
\* share(available) and the rest
SharesAre(T, s, share) ==
    LET dir == T.heap[s].m_splitDir
        e0 == ExtentAlong(GoalOf(T.heap, T.heap[s].m_children[0]), dir)
        e1 == ExtentAlong(GoalOf(T.heap, T.heap[s].m_children[1]), dir)
    IN e0 = share /\ e1 = AvailableOf(T, s) - share

\* The greatest integer at most a * ratio
RatioFloor(a) ==
    CHOOSE q \in -Abs(a) - 1 .. Abs(a) + 1 :
        /\ q * SplitRatioDen <= a * SplitRatioNum
        /\ (q + 1) * SplitRatioDen > a * SplitRatioNum

\* a * ratio with its fraction dropped: the integer of least magnitude
\* within less than one of it, on the side of zero
RatioTowardZero(a) ==
    CHOOSE q \in -Abs(a) - 1 .. Abs(a) + 1 :
        /\ Abs(q) * SplitRatioDen <= Abs(a) * SplitRatioNum
        /\ (Abs(q) + 1) * SplitRatioDen > Abs(a) * SplitRatioNum
        /\ (q # 0 => (q < 0) = (a < 0))

ScaleAfterMap(P, v, cursor) ==
    LET P2 == Only({on_view_mapped(Q, v, cursor, SteadyClock(now)) : Q \in {P}})
        T == P2.m_trees[P.currentWs]
        l == CHOOSE n \in LeafOfView(T.heap, v) : TRUE
    IN T.heap[l].m_geometry.scale.m_value

\* C27: the enter effect that insert starts on the new leaf begins at the
\* configured enter-effect starting scale (the popin_percent option) rather
\* than at a fixed value: changing the configured starting scale changes the
\* scale the new leaf has right after insert.
C27_EnterScaleIsConfigured ==
    \A v \in Views \ tiled : \A cursor \in CursorSet :
        ScaleAfterMap(plugin, v, cursor) = plugin.m_animConfigIn.popinPercent

\* Whatever popin_percent is, a newly mapped window starts at scale 0.8
EnterScaleIsFixed ==
    \A v \in Views \ tiled : \A cursor \in CursorSet :
        ScaleAfterMap(plugin, v, cursor) = PopScale

\* Trees A and B have the same nodes linked the same way (the shape), and
\* every node has the same goal values, current values and animating flags
SameTree(A, B) ==
    /\ A.m_root = B.m_root
    /\ A.m_root # Null => ShapeOf(A) = ShapeOf(B)
    /\ \A n \in NodeIds :
          /\ IsLive(A.heap, n) = IsLive(B.heap, n)
          /\ IsLive(A.heap, n) =>
                \A f \in ScalarFields :
                    /\ A.heap[n].m_geometry[f].m_goal = B.heap[n].m_geometry[f].m_goal
                    /\ A.heap[n].m_geometry[f].m_value = B.heap[n].m_geometry[f].m_value
                    /\ A.heap[n].m_geometry[f].m_animating = B.heap[n].m_geometry[f].m_animating

\* From plugin P to plugin Q every tree but that of workspace ws is kept
OtherTreesKept(P, Q, ws) ==
    \A w \in DOMAIN P.m_trees \ {ws} :
        w \in DOMAIN Q.m_trees /\ SameTree(P.m_trees[w], Q.m_trees[w])

\* C28: a structural operation (insert, remove, message) on one workspace's
\* tree leaves every other workspace's tree unchanged in shape, goal values,
\* current values and animating flags.
C28_OtherWorkspacesUntouched ==
    /\ \A v \in Views \ tiled :
          \A Q \in {on_view_mapped(plugin, v, plugin.m_cursorPos, SteadyClock(now))} :
              OtherTreesKept(plugin, Q, plugin.currentWs)
    /\ \A v \in tiled :
          \A Q \in {on_view_unmapped(plugin, v, SteadyClock(now))} :
              OtherTreesKept(plugin, Q, plugin.workspaceIndex[v])
    /\ \A w \in DOMAIN plugin.m_trees : \A msg \in {"togglesplit", "swapnext"} :
          \A T \in {handleLayoutMessage(plugin.m_trees[w], msg, NoView, Rect(0, 0, 640, 480), SteadyClock(now))} :
              OtherTreesKept(plugin, [plugin EXCEPT !.m_trees[w] = T], w)

\* Workspace 1 holds two windows in mid-flight while workspace 2, the current
\* one, has a tree of its own on which insert and remove act
C28_Witness ==
    /\ plugin.currentWs = 2
    /\ DOMAIN plugin.m_trees = {1, 2}
    /\ \E n \in Leaves(plugin.m_trees[1].heap) :
          LET g == plugin.m_trees[1].heap[n].m_geometry
          IN g.x.m_animating /\ AGcurrent(g) # AGgoal(g) /\ g.x.m_value # g.x.m_start

\* In T every x, y, width and height scalar of every node is animating with
\* start instant t, and an advance of T reports still-animating at every
\* instant before t + duration and no longer at t + duration
ResetAt(T, t) ==
    /\ T.m_root # Null
    /\ \A n \in Reachable(T.heap, T.m_root), f \in LayoutFields :
          /\ T.heap[n].m_geometry[f].m_animating
          /\ T.heap[n].m_geometry[f].m_startTime = t
    /\ \A u \in t .. (t + T.m_durationMs - 1) : tickAnimationsResult(T, SteadyClock(u))
    /\ ~tickAnimationsResult(T, SteadyClock(t + T.m_durationMs))

\* The nodes of T2 that T has too, with the same goal rectangle
GoalKept(T, T2) ==
    {n \in Reachable(T2.heap, T2.m_root) :
        IsLive(T.heap, n) /\ GoalOf(T.heap, n) = GoalOf(T2.heap, n)}

\* C29: an animated recalculation re-sets the goal of every node in the
\* tree: after any animated insert, remove or message, every x, y, width and
\* height scalar of every node is marked animating with its start instant
\* reset, including nodes whose goal rectangle did not change, and the tree
\* reports still-animating until a full duration has elapsed.
C29_EveryOperationResetsAll ==
    /\ \A v \in AllViews \ tiled : ResetAt(addView(tree, v, TRUE, SteadyClock(now)), now)
    /\ \A v \in tiled : ResetAt(removeView(tree, v, TRUE, SteadyClock(now)), now)
    /\ \A msg \in MsgSet, v \in Views \cup {NoView} :
          MessageLeaves(tree, v) # {} =>
              ResetAt(handleLayoutMessage(tree, msg, v, Rect(0, 0, 640, 480), SteadyClock(now)), now)

\* C29, amended: an animated recalculation re-sets the goal of every node in
\* the tree: after any animated insert, any animated remove of a window whose
\* leaf has a parent, and any toggle-split, swap or toggle-pseudotile
\* message whose target leaf has a parent, every x, y, width and height
\* scalar of every node is marked animating with its start instant reset,
\* including nodes whose goal rectangle did not change, and the tree reports
\* still-animating until a full duration has elapsed.  A remove of the only
\* window leaves an empty tree, which reports nothing animating; a message of
\* another name or on the root leaf changes nothing.
C29_RecalculationResetsAll ==
    /\ \A v \in AllViews \ tiled : ResetAt(addView(tree, v, TRUE, SteadyClock(now)), now)
    /\ \A v \in tiled : \A node \in LeafOfView(tree.heap, v) :
          \A T2 \in {removeView(tree, v, TRUE, SteadyClock(now))} :
              IF tree.heap[node].m_parent # Null
              THEN ResetAt(T2, now)
              ELSE T2.m_root = Null /\ ~tickAnimationsResult(T2, SteadyClock(now))
    /\ \A msg \in MsgSet, v \in Views \cup {NoView} : \A node \in MessageLeaves(tree, v) :
          \A T2 \in {handleLayoutMessage(tree, msg, v, Rect(0, 0, 640, 480), SteadyClock(now))} :
              IF tree.heap[node].m_parent # Null /\ msg # "unknown"
              THEN ResetAt(T2, now)
              ELSE T2 = tree

\* Two windows at rest long after their animations ended; a swap message
\* leaves the root's goal rectangle as it was and still re-sets its scalars
C29_Witness ==
    /\ Cardinality(tiled) = 2
    /\ now >= 1
    /\ ~TreeAnimating(tree)
    /\ \A T2 \in {handleLayoutMessage(tree, "swapnext", NoView, Rect(0, 0, 640, 480), SteadyClock(now))} :
          /\ tree.m_root \in GoalKept(tree, T2)
          /\ ResetAt(T2, now)

EffectFields == {"scale", "alpha"}

\* Every node of set N has in T2 the scale and alpha (value, goal and
\* animating flag) that it has in T
EffectsKept(T, T2, N) ==
    \A n \in N : \A f \in EffectFields :
        /\ IsLive(T2.heap, n)
        /\ T2.heap[n].m_geometry[f].m_value = T.heap[n].m_geometry[f].m_value
        /\ T2.heap[n].m_geometry[f].m_goal = T.heap[n].m_geometry[f].m_goal
        /\ T2.heap[n].m_geometry[f].m_animating = T.heap[n].m_geometry[f].m_animating

\* C30: layout recalculation (setting or warping rectangle goals) never
\* changes any node's scale or alpha: insert changes scale and alpha only on
\* the newly inserted leaf, and remove only on the leaf being removed, so
\* every other leaf's scale and alpha values, goals and animating flags are
\* left as they were.
C30_LayoutLeavesScaleAndAlpha ==
    LET nodes == Reachable(tree.heap, tree.m_root)
        clk == SteadyClock(now)
    IN /\ \A animate \in BOOLEAN :
             EffectsKept(tree, recalculateLayout(tree, animate, clk), nodes)
       /\ \A v \in AllViews \ tiled : \A animate \in BOOLEAN :
             EffectsKept(tree, addView(tree, v, animate, clk), nodes)
       /\ \A v \in tiled : \A animate \in BOOLEAN :
             \A T2 \in {removeView(tree, v, animate, clk)} :
                 EffectsKept(tree, T2, Reachable(T2.heap, T2.m_root))
       /\ \A msg \in MsgSet, v \in Views \cup {NoView} :
             EffectsKept(tree, handleLayoutMessage(tree, msg, v, Rect(0, 0, 640, 480), clk), nodes)

\* A window half way through its enter effect next to a window inserted
\* just now, whose insert recalculated the layout of both
C30_Witness ==
    /\ now >= 1
    /\ \E a, b \in Leaves(tree.heap) :
          LET ga == tree.heap[a].m_geometry
              gb == tree.heap[b].m_geometry
          IN /\ a # b
             /\ ga.scale.m_animating
             /\ ga.scale.m_value > PopScale /\ ga.scale.m_value < FloatOne
             /\ ga.scale.m_startTime < now
             /\ ga.x.m_animating /\ ga.x.m_startTime = now
             /\ gb.scale.m_value = PopScale /\ gb.scale.m_startTime = now

\* hasView, getViews and countLeaves of tree T agree with the set W of windows
ViewsAre(T, W) ==
    /\ \A v \in AllViews : hasView(T, v) <=> v \in W
    /\ Len(getViews(T)) = Cardinality(W)
    /\ {getViews(T)[i] : i \in DOMAIN getViews(T)} = W
    /\ IF T.m_root = Null THEN W = {} ELSE countLeaves(T.heap, T.m_root) = Cardinality(W)

\* C32: after any sequence of removes and of inserts of windows not already
\* contained, contains(w) is true exactly for the windows inserted and not
\* yet removed, allWindows lists each of them exactly once, and countLeaves
\* of the root equals their number.
C32_ViewsAreThoseInserted ==
    /\ ViewsAre(tree, tiled)
    /\ \A v \in AllViews \ tiled :
          ViewsAre(addView(tree, v, TRUE, SteadyClock(now)), tiled \cup {v})
    /\ \A v \in AllViews :
          ViewsAre(removeView(tree, v, TRUE, SteadyClock(now)), tiled \ {v})

\* Three windows, the one in the middle of the list about to be removed
C32_Witness ==
    /\ Cardinality(tiled) = 3
    /\ \E v \in tiled :
          /\ getViews(tree)[2] = v
          /\ Len(getViews(removeView(tree, v, TRUE, SteadyClock(now)))) = 2

\* Every scalar of every node of tree T has its current value at its goal
AllAtGoal(T) ==
    \A n \in Reachable(T.heap, T.m_root), f \in ScalarFields :
        T.heap[n].m_geometry[f].m_value = T.heap[n].m_geometry[f].m_goal

\* C33: whenever advance on a tree returns false, every scalar of every node
\* in that tree has its current value equal to its goal value, so
\* currentRect(w) equals goalRect(w) and scale and alpha are at their goals
\* for every window in the tree.
C33_DoneMeansAtGoal ==
    \A bump \in BumpPositions :
        (bump < NoBump => now < MaxTime) =>
            (~tickAnimationsResult(tree, ClockOf(bump)) =>
                \A T2 \in {tickAnimations(tree, ClockOf(bump))} :
                    /\ AllAtGoal(T2)
                    /\ \A v \in tiled :
                          /\ getViewGeometry(T2, v) = getViewGoalGeometry(T2, v)
                          /\ getViewScaleAlpha(T2, v) = <<FloatOne, FloatOne>>)

\* Two windows under way, rectangles and enter effect short of their goals,
\* whose animations all end in the advance that is about to run
C33_Witness ==
    /\ Cardinality(tiled) = 2
    /\ \E n \in Leaves(tree.heap) :
          /\ tree.heap[n].m_geometry.scale.m_value < FloatOne
          /\ AGcurrent(tree.heap[n].m_geometry) # AGgoal(tree.heap[n].m_geometry)
    /\ ~tickAnimationsResult(tree, SteadyClock(now))
    /\ AllAtGoal(tickAnimations(tree, SteadyClock(now)))

\* Every edge of rectangle r is within rectangle b
LiesInside(r, b) ==
    /\ b.x <= r.x /\ r.x <= b.x + b.width
    /\ b.x <= r.x + r.width /\ r.x + r.width <= b.x + b.width
    /\ b.y <= r.y /\ r.y <= b.y + b.height
    /\ b.y <= r.y + r.height /\ r.y + r.height <= b.y + b.height

\* Rectangles r and q lie side by side or one above the other
Disjoint(r, q) ==
    \/ r.x + r.width <= q.x \/ q.x + q.width <= r.x
    \/ r.y + r.height <= q.y \/ q.y + q.height <= r.y

\* The goal rectangles of the leaves of T do not overlap, and each lies
\* inside the bounds shrunk by the outer gap
GoalsFit(T) ==
    /\ \A a, b \in Leaves(T.heap) : a # b => Disjoint(GoalOf(T.heap, a), GoalOf(T.heap, b))
    /\ \A a \in Leaves(T.heap) : LiesInside(GoalOf(T.heap, a), Shrunk(T.m_bounds, T.m_gapOut))

\* The trees insert, remove and message make of T
AfterOneOperation(T) ==
    {addView(T, v, TRUE, SteadyClock(now)) : v \in AllViews \ tiled}
    \cup {removeView(T, v, TRUE, SteadyClock(now)) : v \in tiled}
    \cup {handleLayoutMessage(T, msg, v, Rect(0, 0, 640, 480), SteadyClock(now)) :
             msg \in MsgSet, v \in tiled}

\* C34: after any sequence of inserts, removes and messages, the goal
\* rectangles of all leaves are pairwise non-overlapping and each lies
\* inside the bounds shrunk by the outer gap, for every bounds size and
\* window count, including when repeated splitting makes an extent smaller
\* than gapIn.
C34_LeavesFitWithoutOverlap ==
    \A T2 \in AfterOneOperation(tree) : GoalsFit(T2)

\* The same for the trees in which every split has at least the inner gap
\* to share out
LeavesFitWhereGapFits ==
    \A T2 \in AfterOneOperation(tree) :
        (\A s \in Splits(T2.heap) : AvailableOf(T2, s) >= 0) => GoalsFit(T2)

\* The workspaces whose tree holds window v in a leaf
TreesHolding(P, v) == {w \in DOMAIN P.m_trees : hasView(P.m_trees[w], v)}

\* C37: after any sequence of view-mapped, view-unmapped and
\* workspace-switch events, every tiled view is a leaf of exactly one
\* workspace tree, namely the tree whose index is stored in the view's data,
\* and a view that has been unmapped is a leaf of no tree.
C37_OneTreePerTiledView ==
    \A v \in Views :
        IF v \in tiled
        THEN /\ TreesHolding(plugin, v) = {plugin.workspaceIndex[v]}
             /\ Cardinality(LeafOfView(plugin.m_trees[plugin.workspaceIndex[v]].heap, v)) = 1
        ELSE /\ TreesHolding(plugin, v) = {}
             /\ plugin.workspaceIndex[v] = NoWorkspace

\* A window tiled on a workspace the output no longer shows, and the tree of
\* the shown workspace emptied by an unmap
C37_Witness ==
    /\ \E v \in tiled : plugin.workspaceIndex[v] # plugin.currentWs
    /\ plugin.currentWs \in DOMAIN plugin.m_trees
    /\ isEmpty(plugin.m_trees[plugin.currentWs])
    /\ Cardinality(tiled) = 1

\* The views of the tree of the workspace the output of plugin P shows
ShownViews(P) ==
    IF P.currentWs \in DOMAIN P.m_trees THEN ViewSet(P.m_trees[P.currentWs]) ELSE {}

C36_IdleLoopMeansSettledViews ==
    ~plugin.m_animationActive =>
        \A v \in ShownViews(plugin) :
            /\ plugin.workspaceIndex[v] = plugin.currentWs
            /\ transformer[v] = IdentityTransformer
            /\ plugin.applied[v] = getViewGoalGeometry(plugin.m_trees[plugin.currentWs], v)

\* The loop has stopped with a window shown, after a switch away from a
\* workspace whose window keeps the transformer of its last tick
C36_Witness ==
    /\ ~plugin.m_animationActive
    /\ ~plugin.effect
    /\ ShownViews(plugin) # {}
    /\ now > 0
    /\ \E w \in DOMAIN plugin.m_trees \ {plugin.currentWs} : \E v \in ViewSet(plugin.m_trees[w]) :
          transformer[v] \notin {IdentityTransformer, NoTransformer}

\* Nothing is under way in plugin P: no scalar of any tree is animating,
\* every scalar is at its goal and the per-frame hook is removed
Settled(P) ==
    /\ ~P.effect
    /\ ~P.m_animationActive
    /\ \A w \in DOMAIN P.m_trees : ~TreeAnimating(P.m_trees[w]) /\ AllAtGoal(P.m_trees[w])

\* C35: if the clock keeps advancing, frames keep being delivered and no
\* further map, unmap or workarea-changed event occurs, then every animation
\* in every tree eventually completes and the plugin removes its per-frame
\* hook (the animation loop becomes inactive).
C35_AnimationsRunOut == <>[]Settled(plugin)

\* The loop has stopped with both workspaces holding a window, one of them
\* laid out again at the instant of the last event
C35_Witness ==
    /\ Settled(plugin)
    /\ now > LastEvent
    /\ DOMAIN plugin.m_trees = Workspaces
    /\ \A w \in Workspaces : plugin.m_trees[w].m_root # Null
    /\ \E w \in Workspaces : \E n \in Reachable(plugin.m_trees[w].heap, plugin.m_trees[w].m_root) :
          plugin.m_trees[w].heap[n].m_geometry.x.m_startTime = LastEvent

====
